---- MODULE Spec2Model ----
(***************************************************************************)
(* Model of the ezipc peer engine (src/ezipc/remote): the Remote class,   *)
(* its Connection and the JSON-RPC codec, for two peers "A" and "B" that  *)
(* hold the two ends of one stream.                                        *)
(*                                                                         *)
(* Python exceptions are modelled by name: an operation that raises       *)
(* records the exception's class in `last` (API calls) or in the helper's *)
(* state (worker tasks).                                                   *)
(***************************************************************************)
EXTENDS Integers, Sequences, FiniteSets, TLC

(* ---------------------------------------------------------------------- *)
(* Bounds                                                                  *)
(* ---------------------------------------------------------------------- *)
\* Calls of the public interface, expiries and frames arriving on the
\* inbound stream in one run.
MaxOps == 4

(* ---------------------------------------------------------------------- *)
(* Values                                                                  *)
(* ---------------------------------------------------------------------- *)
Peers == {"A", "B"}

\* The peer whose Remote is modelled; the other end of the stream is the
\* environment, which feeds frames and may end the stream.
Local == {"A"}

Other(p) == IF p = "A" THEN "B" ELSE "A"

\* Message ids.  k in 1..MaxOps is the k-th value drawn from uuid4().hex;
\* UserId is an id string chosen by the caller or by the remote side
\* ("bob"); NullId is JSON null / Python None.
NullId == -1
UserId == 0
Ids == 0..MaxOps

\* Params / result payloads: shape of the JSON value, a tag for its content
\* and, for a keyed mapping, the value of its "id" key (NullId = no key).
NoParams == [shape |-> "none", val |-> "", idkey |-> NullId]
ListX == [shape |-> "list", val |-> "x", idkey |-> NullId]
EmptyList == [shape |-> "list", val |-> "", idkey |-> NullId]
DictA == [shape |-> "dict", val |-> "a", idkey |-> NullId]
DictId == [shape |-> "dict", val |-> "a", idkey |-> UserId]
\* {"reason": null}
DictNull == [shape |-> "dict", val |-> "null", idkey |-> NullId]
\* An error object; code is the decimal text of its code.
ErrorObj(code) == [shape |-> "error", val |-> code, idkey |-> NullId]

Payloads == {NoParams, ListX, DictA, DictId}

PyNone == [shape |-> "None", val |-> "", idkey |-> NullId]

(* ---------------------------------------------------------------------- *)
(* State                                                                   *)
(* ---------------------------------------------------------------------- *)
VARIABLES
    open,        \* Connection.open, per peer
    futures,     \* Remote.futures: id -> index into fut, per peer
    fut,         \* every asyncio.Future created by request()
    uuids,       \* number of uuid4() values drawn so far
    wire,        \* frames written towards each peer's StreamReader
    eof,         \* the stream towards the peer has ended
    lines,       \* Remote.lines queue, per peer
    reader,      \* state of Remote.loop, per peer
    helper,      \* state of the _helper worker tasks, per peer
    staged,      \* Connection._box, per peer
    active,      \* Connection.box, per peer
    otherkeys,   \* Connection.key_other_pub / key_other_ver, per peer
    can,         \* Connection.can_encrypt (nacl importable), per peer
    rsa,         \* outcome of the enable_rsa() coroutine, per peer
    sent,        \* frames written by Connection.write, per peer
    counts,      \* Remote.total_sent / total_recv message counters, per peer
    ops,         \* calls made and frames read so far
    last,        \* outcome of the last API call or worker step
    stream,      \* chunks handed to StreamWriter.write, per peer
    calls,       \* handlers of the application whose body has started, per peer
    ready,       \* helpers whose gathered tasks wait in the event loop, per peer
    server       \* Server: remotes, and the open_connection coroutine per peer

vars == <<open, futures, fut, uuids, wire, eof, lines, reader, helper,
          staged, active, otherkeys, can, rsa, sent, counts, ops, last,
          stream, calls, ready, server>>

(* ---------------------------------------------------------------------- *)
(* Protocol codec (src/ezipc/remote/protocol.py)                           *)
(* ---------------------------------------------------------------------- *)

\* The keys an inbound object may carry besides "jsonrpc"; "extra" stands
\* for any key the protocol does not know.
KeyNames == {"method", "params", "id", "result", "error", "extra"}

\* JRPC.check(data) for an object whose "jsonrpc" is ver and whose other
\* keys are `keys`: with an id and at least one more key it is a Request
\* or a Response, without an id a Notification.  `res_sub & keys` accepts
\* any object that has result, error or both.
Check(ver, keys) ==
    IF ver # "2.0" THEN "none"
    ELSE IF "id" \in keys /\ keys # {"id"}
    THEN IF {"id", "method"} \subseteq keys /\ keys \subseteq {"id", "method", "params"}
         THEN "req"
         ELSE IF keys \cap {"error", "result"} # {}
                 /\ keys \subseteq {"id", "error", "result"}
         THEN "res"
         ELSE "none"
    ELSE IF "method" \in keys /\ keys \subseteq {"method", "params"}
    THEN "notif"
    ELSE "none"

\* A JSON object on the wire: its version, its keys, and the values of
\* "method", "id", "params" or "result" (body) and "error" (err).  kind is
\* the shape JRPC.check finds.
Obj(ver, keys, method, id, body, err) ==
    [ver |-> ver, keys |-> keys, method |-> method, id |-> id, body |-> body,
     err |-> err, kind |-> Check(ver, keys)]

\* A well-formed object of the given kind: a Request or Notification has
\* "params" when body is given, a Response has "error" for an error body
\* and "result" for any other.
WireObj(kind, method, id, body) ==
    IF kind = "res"
    THEN IF body.shape = "error"
         THEN Obj("2.0", {"id", "error"}, method, id, PyNone, body)
         ELSE Obj("2.0", {"id", "result"}, method, id, body, PyNone)
    ELSE Obj("2.0",
             (IF kind = "req" THEN {"id", "method"} ELSE {"method"})
                 \cup (IF body.shape = "none" THEN {} ELSE {"params"}),
             method, id, body, PyNone)

\* A frame payload: valid JSON holding a batch of objects, or not JSON.
Line(msgs) == [msgs |-> msgs, json |-> TRUE]
NotJson == [msgs |-> <<>>, json |-> FALSE]

\* A frame: the payload and the cipher it was encrypted under ("plain" when
\* it was only armored).
Frame(enc, line) == [enc |-> enc, line |-> line]

\* Python truthiness of a params / result / error value.
Truthy(v) == v.shape \in {"error"} \/ (v.shape \in {"list", "dict"} /\ v.val # "")

\* Message.__str__: dumps(dict(self)).  Notification, Request and Response
\* define __iter__ with the body `...`, which returns None, so dict(self)
\* raises TypeError for every message.
MessageStr(msg) == [raised |-> "TypeError", text |-> NotJson]

\* Batch.json(): Batch defines no method json, the call raises
\* AttributeError.
BatchJson(batch) == [raised |-> "AttributeError", text |-> NotJson]

\* Request.__init__(method, *args, id=None, **kwargs) as called with the
\* params `p` spread and the extra keywords `extra` (a set of names):
\* positional and keyword arguments mixed raise ValueError; the keyword
\* `id` is taken as the id, everything else is params; a missing id is
\* drawn from uuid4().  `n` is the number of uuid4 values drawn before.
RequestInit(method, p, extra, n) ==
    LET hasArgs == p.shape = "list" /\ p.val # ""
        hasKw == (p.shape = "dict" /\ p.val # "") \/ extra # {}
        given == IF p.shape = "dict" THEN p.idkey ELSE NullId
        drawn == given = NullId
    IN  IF hasArgs /\ hasKw
        THEN [uuids |-> n, id |-> NullId, raised |-> "ValueError", params |-> NoParams]
        ELSE [uuids |-> IF drawn THEN n + 1 ELSE n,
              id |-> IF drawn THEN n + 1 ELSE given,
              raised |-> "none",
              params |-> IF hasArgs THEN p
                         ELSE IF hasKw
                         THEN [shape |-> "dict",
                               val |-> IF p.shape = "dict" /\ p.val # "" THEN p.val ELSE "mid",
                               idkey |-> NullId]
                         ELSE EmptyList]

\* A decoded Message object.  wireid is the id the object had on the wire
\* (history only: the code does not keep it for Requests).
Msg(kind, method, id, params, wireid) ==
    [method |-> method, id |-> id, kind |-> kind, params |-> params, wireid |-> wireid]

\* Response.__init__(request, error, result): with neither value truthy
\* nothing is set; set() raises ValueError unless exactly one is not None.
ResponseInit(id, error, result) ==
    IF ~(Truthy(error) \/ Truthy(result))
    THEN [id |-> id, raised |-> "none", error |-> PyNone, result |-> PyNone]
    ELSE IF (error = PyNone) = (result = PyNone)
    THEN [id |-> id, raised |-> "ValueError", error |-> PyNone, result |-> PyNone]
    ELSE [id |-> id, raised |-> "none", error |-> error, result |-> result]

\* JRPC.decode for one object of the batch: the Message it yields.  A
\* Request is rebuilt from its method and params alone, so its id is the
\* "id" key of its params or a new uuid4 value, not the id on the wire.
DecodeObj(o, n) ==
    LET params == IF "params" \in o.keys THEN o.body ELSE NoParams
    IN  IF o.kind = "req"
        THEN LET r == RequestInit(o.method, params, {}, n)
             IN  [uuids |-> r.uuids, msg |-> Msg("req", o.method, r.id, r.params, o.id),
                  raised |-> r.raised]
        ELSE IF o.kind = "notif"
        THEN [uuids |-> n, msg |-> Msg("notif", o.method, NullId,
                          IF Truthy(params) THEN params ELSE EmptyList, NullId),
              raised |-> "none"]
        ELSE LET err == IF "error" \in o.keys THEN o.err ELSE PyNone
                 res == IF "result" \in o.keys THEN o.body ELSE PyNone
                 r == ResponseInit(o.id, err, res)
             IN  [uuids |-> n, msg |-> Msg("res", "", o.id,
                              IF r.error # PyNone THEN r.error ELSE r.result, o.id),
                  raised |-> r.raised]

(* ---------------------------------------------------------------------- *)
(* Futures                                                                 *)
(* ---------------------------------------------------------------------- *)

\* An asyncio.Future made by request(): the peer and id it was registered
\* for, its state ("pending", "result", "exception", "cancelled"), its
\* result or exception, and whether request() is waiting on it inside
\* wait_for (timeout > 0).
NewFuture(p, id, timed) ==
    [id |-> id, timed |-> timed, peer |-> p, state |-> "pending", value |-> PyNone,
     exc |-> ""]

Done(f) == f.state # "pending"

\* dict.pop / del on the outstanding table.
Remove(futs, id) == [i \in DOMAIN futs \ {id} |-> futs[i]]

\* self.futures[req.id] = future
Register(futs, id, k) == [i \in DOMAIN futs \cup {id} |-> IF i = id THEN k ELSE futs[i]]

(* ---------------------------------------------------------------------- *)
(* Remote.process_message                                                  *)
(* ---------------------------------------------------------------------- *)

\* What process_message returned for one Message: t is the kind of value
\* ("None", "Response", "value", "coro", "gen"), the rest describes it.
Tsk(t, id, error, result) == [id |-> id, error |-> error, result |-> result, t |-> t]
TskNone == Tsk("None", NullId, PyNone, PyNone)

\* The ids whose entry an inbound Response with `id` pops from the table:
\* `if msg.id in self.futures: future = self.futures.pop(msg.id)`.
Awaited(futs, id) == IF id \in DOMAIN futs THEN {id} ELSE {}

\* set_result on whatever Future was popped: asyncio raises
\* InvalidStateError when the Future is cancelled or done already.
FulfilUnchecked(f, msg) ==
    IF Done(f) THEN [raised |-> "InvalidStateError", f |-> f]
    ELSE IF Truthy(msg.params) /\ msg.params.shape = "error"
    THEN [raised |-> "AttributeError", f |-> f]
    ELSE [raised |-> "none", f |-> [f EXCEPT !.state = "result", !.value = msg.params]]

\* The popped Future after the Response `msg` was applied to it, and the
\* exception the attempt raised.  A cancelled or done Future is left
\* alone.  msg.error is the plain dict taken from the wire: it has no
\* as_exception, the call raises AttributeError before set_exception.
Fulfil(f, msg) ==
    IF f.state = "cancelled" THEN [raised |-> "none", f |-> f]
    ELSE IF Done(f) THEN [raised |-> "none", f |-> f]
    ELSE IF Truthy(msg.params) /\ msg.params.shape = "error"
    THEN [raised |-> "AttributeError", f |-> f]
    ELSE [raised |-> "none", f |-> [f EXCEPT !.state = "result", !.value = msg.params]]

\* `future = self.futures.pop(msg.id)` and what follows it: the entry is
\* removed, the Response is applied to its Future.
Pop(st, msg, id) ==
    LET k == st.futs[id]
        r == Fulfil(st.fut[k], msg)
    IN  [st EXCEPT !.futs = Remove(@, id),
                   !.popped = @ \cup {id},
                   !.fut = [@ EXCEPT ![k] = r.f],
                   !.raised = r.raised,
                   !.data = IF r.raised = "none"
                            THEN Append(@, [recv |-> msg, tsk |-> TskNone])
                            ELSE @]

\* self.futures.pop(msg.id) without the membership test: KeyError for an
\* id that is not in the table.
OnResponseUnchecked(st, msg) ==
    IF msg.id \in DOMAIN st.futs THEN Pop(st, msg, msg.id)
    ELSE [st EXCEPT !.raised = "KeyError"]

\* Branch `isinstance(msg, Response)`.  st carries the peer's table
\* (futs), all Futures (fut) and the exception raised so far.  A Response
\* whose id is not in the table is logged and dropped.
OnResponse(st, msg) ==
    LET hit == Awaited(st.futs, msg.id)
    IN  IF hit = {} THEN [st EXCEPT !.data = Append(@, [recv |-> msg, tsk |-> TskNone])]
        ELSE Pop(st, msg, CHOOSE i \in hit : TRUE)

\* The hooks of the peer: those _add_hooks registers, and the handlers of
\* the application.  BOOM is a plain function that raises, BOOM.CORO a
\* coroutine function and BOOM.GEN a generator function whose body raises;
\* ERR is a plain function that returns an Error object, ERR.CORO a
\* coroutine function that returns one, ERR.GEN a generator function that
\* yields one; CORO is a coroutine
\* function that returns a list, GEN.ONE and GEN.TWO generator functions
\* that yield one list and two lists; N.SYNC is a plain function, N.ASYNC
\* a coroutine function.
HooksRequest == {"PING", "RSA.EXCH", "RSA.CONF", "BOOM", "BOOM.CORO", "BOOM.GEN",
                 "ERR", "ERR.CORO", "ERR.GEN", "CORO", "GEN.ONE", "GEN.TWO"}
HooksNotif == {"N.SYNC", "N.ASYNC"}

\* The methods the owner of the peer (Server or Client) can register a
\* handler for: PING and N.SYNC are in the tables of the peer as well, SVC
\* (a Request) and N.SVC (a Notification) are not.  All of them are plain
\* functions; those for Requests return the list ["owner"].
OwnerHooks == {"PING", "SVC", "N.SYNC", "N.SVC"}
Owned == [shape |-> "list", val |-> "owner", idkey |-> NullId]

\* Inherited tables that are a copy made when the peer was created.
HooksCopied == {}

\* remote.hooks_request_inher = self.hooks_request (and the same for
\* hooks_notif): the inherited tables of a peer are the dicts of its
\* owner, so they hold what the owner has registered so far.
HooksInher == server.hooks

\* A merged table in which the handler of the peer itself is kept for a
\* method that is in both tables.
FromOwnerUnlessOwn(method) ==
    method \in HooksInher /\ method \notin HooksRequest \cup HooksNotif

\* hooks = own.copy(); hooks.update(inherited): the merged table has the
\* inherited handler for a method that is in both.  TRUE when the handler
\* invoked for `method` is the inherited one.
FromOwner(method) == method \in HooksInher

\* The body of an application handler starts for the message `msg`.
Called(log, msg) == Append(log, [method |-> msg.method, tag |-> msg.params.val])

\* The handler of the owner is invoked for `msg`.
CalledOwner(log, msg) == Append(log, [method |-> msg.method, tag |-> Owned.val])

\* Branch `isinstance(msg, Request)`: the value the hook returns.  PING
\* returns its params; RSA.EXCH is a coroutine function, RSA.CONF a
\* generator function: calling them runs nothing yet.  An exception the
\* hook raises is caught and returned.  Without a hook the Response with
\* method_not_found is returned.
OnRequest(st, msg) ==
    LET tsk == IF FromOwner(msg.method) THEN Tsk("value", NullId, PyNone, Owned)
               ELSE IF msg.method = "PING" THEN Tsk("value", NullId, PyNone, msg.params)
               ELSE IF msg.method \in {"RSA.EXCH", "BOOM.CORO", "CORO", "ERR.CORO"}
               THEN Tsk("coro", NullId, PyNone, msg.params)
               ELSE IF msg.method \in {"RSA.CONF", "BOOM.GEN", "GEN.ONE", "GEN.TWO", "ERR.GEN"}
               THEN Tsk("gen", NullId, PyNone, msg.params)
               ELSE IF msg.method = "BOOM" THEN Tsk("Exception", NullId, PyNone, PyNone)
               ELSE IF msg.method = "ERR" THEN Tsk("Error", NullId, ErrorObj("7"), PyNone)
               ELSE Tsk("Response", msg.id, ErrorObj("-32601"), PyNone)
    IN  [st EXCEPT !.data = Append(@, [recv |-> msg, tsk |-> tsk]),
                   !.calls = IF FromOwner(msg.method) THEN CalledOwner(@, msg)
                             ELSE IF msg.method \in {"BOOM", "ERR"} THEN Called(@, msg)
                             ELSE @]

\* process_message with the line `return Response(msg, error=...)` of its
\* last branch in force: a Notification without hook is answered.
OnNotifAnswered(st, msg) ==
    IF msg.method = "TERM"
    THEN [st EXCEPT !.raised = IF msg.params.shape = "dict"
                               THEN "ConnectionResetError" ELSE "TypeError"]
    ELSE IF msg.method \in HooksNotif
    THEN [st EXCEPT !.data = Append(@, [recv |-> msg, tsk |-> TskNone])]
    ELSE [st EXCEPT !.data = Append(@, [recv |-> msg,
                                         tsk |-> Tsk("Response", NullId, ErrorObj("-32601"),
                                                     PyNone)])]

\* Branch `isinstance(msg, Notification)`.  TERM raises
\* ConnectionResetError after reading msg.params["reason"], which itself
\* raises TypeError when params is a list.  A hook that is a plain
\* function runs here and returns None; one that is a coroutine function
\* returns the coroutine.  Without a hook nothing is returned.
OnNotif(st, msg) ==
    IF msg.method = "TERM"
    THEN [st EXCEPT !.raised = IF msg.params.shape = "dict"
                               THEN "ConnectionResetError" ELSE "TypeError"]
    ELSE IF FromOwner(msg.method)
    THEN [st EXCEPT !.data = Append(@, [recv |-> msg, tsk |-> TskNone]),
                    !.calls = CalledOwner(@, msg)]
    ELSE IF msg.method = "N.SYNC"
    THEN [st EXCEPT !.data = Append(@, [recv |-> msg, tsk |-> TskNone]),
                    !.calls = Called(@, msg)]
    ELSE IF msg.method = "N.ASYNC"
    THEN [st EXCEPT !.data = Append(@, [recv |-> msg,
                                         tsk |-> Tsk("coro", NullId, PyNone, msg.params)])]
    ELSE [st EXCEPT !.data = Append(@, [recv |-> msg, tsk |-> TskNone])]

ProcessMessage(st, msg) ==
    IF msg.kind = "res" THEN OnResponse(st, msg)
    ELSE IF msg.kind = "req" THEN OnRequest(st, msg)
    ELSE OnNotif(st, msg)

\* `{msg: self.process_message(msg) for msg in JRPC.decode(line)}`: the
\* objects are decoded and processed one after the other; the first
\* exception ends the comprehension.  JRPC.decode yields nothing for an
\* object that check finds to be of no kind.
RECURSIVE ProcessAll(_, _)
ProcessAll(st, objs) ==
    IF objs = <<>> \/ st.raised # "none" THEN st
    ELSE IF Head(objs).kind = "none" THEN ProcessAll(st, Tail(objs))
    ELSE LET d == DecodeObj(Head(objs), st.uuids)
         IN  IF d.raised # "none" THEN [st EXCEPT !.raised = d.raised]
             ELSE ProcessAll(ProcessMessage([st EXCEPT !.uuids = d.uuids], d.msg),
                             Tail(objs))

(* ---------------------------------------------------------------------- *)
(* Connection (src/ezipc/remote/connection.py)                             *)
(* ---------------------------------------------------------------------- *)

\* A Box(private key, public key); NoBox is None.  Keys are named by the
\* peer that generated them.
NoBox == [priv |-> "", pub |-> ""]
Box(priv, pub) == [priv |-> priv, pub |-> pub]

\* Connection.encrypted: bool(self.box)
Encrypted(p) == active[p] # NoBox

\* Connection.encryption_ready: a staged box that is not the active one.
EncryptionReady(p) == staged[p] # NoBox /\ staged[p] # active[p]

\* _encode without the encrypted branch.
EncodePlain(p, text) == Frame(NoBox, text)

\* Connection._encode: the frame for `text`, encrypted under the active
\* box when there is one.
Encode(p, text) == Frame(active[p], text)

\* A write that hands over the payload and no terminator.
StreamWriteBare(s, k) == Append(s, [part |-> "payload", frame |-> k])

\* `self.outstr.write(ctext); self.outstr.write(sep)`: the two chunks of
\* the k-th frame are handed to the StreamWriter one right after the
\* other, with no suspension in between.
StreamWrite(s, k) ==
    s \o <<[part |-> "payload", frame |-> k], [part |-> "sep", frame |-> k]>>

\* Connection.write(ptext) up to `await self.outstr.drain()`: the
\* variables after the frame was written to the stream, which carries it
\* to the other peer.
Write(p, text, op) ==
    /\ sent' = [sent EXCEPT ![p] = Append(@, [open |-> open[p], frame |-> Encode(p, text),
                                               op |-> op, drained |-> FALSE])]
    /\ wire' = [wire EXCEPT ![Other(p)] = Append(@, Encode(p, text))]
    /\ stream' = [stream EXCEPT ![p] = StreamWrite(@, Len(sent[p]) + 1)]

NoWrite == UNCHANGED <<sent, wire,
                   stream>>

(* ---------------------------------------------------------------------- *)
(* Remote: outbound calls                                                  *)
(* ---------------------------------------------------------------------- *)

\* One more call or frame, within the bound.
Op == ops < MaxOps /\ ops' = ops + 1

\* The outcome of one call of the public interface, kept for inspection.
Outcome(op, p, raised, wrote, k) ==
    [fut |-> k, enc |-> NoBox, line |-> NotJson, raised |-> raised, peer |-> p,
     popped |-> {}, op |-> op, wrote |-> wrote, wasOpen |-> open[p], responses |-> <<>>]

\* send(msg) without the test of `open`.
SendUnchecked(p, msg) ==
    LET s == MessageStr(msg)
    IN  [raised |-> s.raised, text |-> s.text, write |-> s.raised = "none"]

\* Remote.send(msg): [raised, write, text]: on an open connection the text
\* of the message is written; on a closed one nothing happens.
Send(p, msg) ==
    IF open[p]
    THEN LET s == MessageStr(msg)
         IN  [raised |-> s.raised, text |-> s.text, write |-> s.raised = "none"]
    ELSE [raised |-> "none", text |-> NotJson, write |-> FALSE]

\* Remote.send_batch(batch)
SendBatch(p, batch) ==
    IF batch # <<>> /\ open[p]
    THEN LET s == BatchJson(batch)
         IN  [raised |-> s.raised, text |-> s.text, write |-> s.raised = "none"]
    ELSE [raised |-> "none", text |-> NotJson, write |-> FALSE]

\* The part of `vars` no outbound call touches.
inbound == <<eof, lines, reader, helper, staged, active, otherkeys, can, rsa, calls, ready,
            server>>

\* total_sent[kind] += 1
Count(p, kind) == counts' = [counts EXCEPT ![p][kind] = @ + 1]

\* Remote.notif(meth, params, nohandle): returns at once on a closed
\* connection; a failure to send is logged, and raised only with nohandle.
NotifResult(p, msg, nohandle) ==
    IF ~open[p] THEN [raised |-> "none", text |-> NotJson, write |-> FALSE, counted |-> FALSE]
    ELSE LET s == Send(p, msg)
         IN  [raised |-> IF nohandle THEN s.raised ELSE "none",
              text |-> s.text, write |-> s.write, counted |-> TRUE]

Notif(p, nohandle) ==
    /\ Op
    /\ LET r == NotifResult(p, Msg("notif", "NOTE", NullId, EmptyList, NullId), nohandle)
       IN  /\ IF r.counted THEN Count(p, "notif") ELSE UNCHANGED counts
           /\ IF r.write THEN Write(p, r.text, "notif") ELSE NoWrite
           /\ last' = Outcome("notif", p, r.raised, r.write, 0)
    /\ UNCHANGED <<open, futures, fut, uuids>>
    /\ UNCHANGED inbound

\* Remote.respond(mid, err=..., res=...): nothing on a closed connection.
RespondResult(p, msg, nohandle) ==
    IF ~open[p] THEN [raised |-> "none", text |-> NotJson, write |-> FALSE, counted |-> FALSE]
    ELSE LET s == Send(p, msg)
         IN  [raised |-> IF nohandle THEN s.raised ELSE "none",
              text |-> s.text, write |-> s.write, counted |-> TRUE]

Respond(p, mid, nohandle) ==
    /\ Op
    /\ LET r == RespondResult(p, Msg("res", "", mid, ListX, NullId), nohandle)
       IN  /\ IF r.counted THEN Count(p, "response") ELSE UNCHANGED counts
           /\ IF r.write THEN Write(p, r.text, "respond") ELSE NoWrite
           /\ last' = Outcome("respond", p, r.raised, r.write, 0)
    /\ UNCHANGED <<open, futures, fut, uuids>>
    /\ UNCHANGED inbound

\* A direct call of Remote.send(msg).
SendCall(p) ==
    /\ Op
    /\ LET r == Send(p, Msg("notif", "NOTE", NullId, EmptyList, NullId))
       IN  /\ IF r.write THEN Write(p, r.text, "send") ELSE NoWrite
           /\ last' = Outcome("send", p, r.raised, r.write, 0)
    /\ UNCHANGED <<open, futures, fut, uuids, counts>>
    /\ UNCHANGED inbound

\* A direct call of Remote.send_batch(batch), with an empty or a
\* one-Response batch.
SendBatchCall(p, batch) ==
    /\ Op
    /\ LET r == SendBatch(p, batch)
       IN  /\ IF r.write THEN Write(p, r.text, "send_batch") ELSE NoWrite
           /\ last' = Outcome("send_batch", p, r.raised, r.write, 0)
    /\ UNCHANGED <<open, futures, fut, uuids, counts>>
    /\ UNCHANGED inbound

\* request() without the test of `open`.
RequestResultUnchecked(p, meth, params) ==
    LET r == RequestInit(meth, params, {"mid"}, uuids)
        s == Send(p, Msg("req", meth, r.id, r.params, NullId))
    IN  IF r.raised # "none"
        THEN [uuids |-> uuids, id |-> NullId, raised |-> r.raised,
              text |-> NotJson, write |-> FALSE, counted |-> TRUE, registered |-> FALSE,
              failed |-> FALSE]
        ELSE [uuids |-> r.uuids, id |-> r.id, raised |-> "none", text |-> s.text,
              write |-> s.write, counted |-> TRUE, registered |-> TRUE,
              failed |-> FALSE]

\* Remote.request(meth, params, timeout): on a closed connection a Future
\* already failed with ConnectionResetError is returned.  Otherwise the
\* Request is built with the keyword `mid`, which Request.__init__ takes
\* as one more keyword parameter; the Future is registered under the id
\* the Request ends up with, and send() is tried.  Its failure is logged;
\* `return` in the finally block discards it even with nohandle.
RequestResult(p, meth, params) ==
    IF ~open[p]
    THEN [uuids |-> uuids, id |-> NullId, raised |-> "none", text |-> NotJson,
          write |-> FALSE, counted |-> FALSE, registered |-> FALSE, failed |-> TRUE]
    ELSE LET r == RequestInit(meth, params, {"mid"}, uuids)
             s == Send(p, Msg("req", meth, r.id, r.params, NullId))
         IN  IF r.raised # "none"
             THEN [uuids |-> uuids, id |-> NullId, raised |-> r.raised,
                   text |-> NotJson, write |-> FALSE, counted |-> TRUE, registered |-> FALSE,
                   failed |-> FALSE]
             ELSE [uuids |-> r.uuids, id |-> r.id, raised |-> "none", text |-> s.text,
                   write |-> s.write, counted |-> TRUE, registered |-> TRUE,
                   failed |-> FALSE]

Request(p, params, timed) ==
    /\ Op
    /\ LET r == RequestResult(p, "PING", params)
           k == Len(fut) + 1
       IN  /\ uuids' = r.uuids
           /\ IF r.counted THEN Count(p, "request") ELSE UNCHANGED counts
           /\ IF r.write THEN Write(p, r.text, "request") ELSE NoWrite
           /\ IF r.registered
              THEN /\ fut' = Append(fut, NewFuture(p, r.id, timed))
                   /\ futures' = [futures EXCEPT ![p] = Register(@, r.id, k)]
              ELSE IF r.failed
              THEN /\ fut' = Append(fut, [NewFuture(p, NullId, FALSE) EXCEPT
                                              !.state = "exception",
                                              !.exc = "ConnectionResetError"])
                   /\ UNCHANGED futures
              ELSE UNCHANGED <<fut, futures>>
           /\ last' = Outcome("request", p, r.raised, r.write,
                              IF r.registered \/ r.failed THEN k ELSE 0)
    /\ UNCHANGED <<open>>
    /\ UNCHANGED inbound

\* wait_for(future, timeout) expires: it cancels the Future and raises
\* TimeoutError in the caller of request().  The table is not touched.
Expire(f) == [f EXCEPT !.state = "cancelled", !.exc = "TimeoutError"]

Timeout(k) ==
    /\ k \in 1..Len(fut)
    /\ fut[k].timed /\ ~Done(fut[k])
    /\ Op
    /\ fut' = [fut EXCEPT ![k] = Expire(@)]
    /\ last' = Outcome("timeout", fut[k].peer, "TimeoutError", FALSE, k)
    /\ UNCHANGED <<open, futures, uuids, sent, wire, counts,
                   stream>>
    /\ UNCHANGED inbound

\* The caller cancels a Future that request() returned: Future.cancel().
Cancel(k) ==
    /\ k \in 1..Len(fut)
    /\ ~fut[k].timed /\ ~Done(fut[k])
    /\ Op
    /\ fut' = [fut EXCEPT ![k].state = "cancelled"]
    /\ last' = Outcome("cancel", fut[k].peer, "none", FALSE, k)
    /\ UNCHANGED <<open, futures, uuids, sent, wire, counts,
                   stream>>
    /\ UNCHANGED inbound

\* Remote.close() / Connection.close(): the flag is cleared and the
\* writer is closed, which ends the other peer's inbound stream.  The
\* outstanding table and its Futures are not touched.
CloseFutures(p, fs) == fs

Closed(p) ==
    /\ open' = [open EXCEPT ![p] = FALSE]
    /\ eof' = [eof EXCEPT ![Other(p)] = TRUE]
    /\ fut' = CloseFutures(p, fut)

Close(p) ==
    /\ Op
    /\ Closed(p)
    /\ last' = Outcome("close", p, "none", FALSE, 0)
    /\ UNCHANGED <<futures, uuids, sent, wire, counts,
                   stream>>
    /\ UNCHANGED <<lines, reader, helper, staged, active, otherkeys, can, rsa,
                   calls, ready, server>>

\* Remote.terminate(reason): on an open connection the TERM Notification
\* is tried with nohandle, its failure is logged, and the connection is
\* closed in any case.  Nothing happens on a closed connection.
Terminating(p) ==
    /\ Op
    /\ IF open[p]
       THEN LET r == NotifResult(p, Msg("notif", "TERM", NullId, DictA, NullId), TRUE)
            IN  /\ Count(p, "notif")
                /\ IF r.write THEN Write(p, r.text, "terminate") ELSE NoWrite
                /\ Closed(p)
                /\ last' = Outcome("terminate", p, "none", r.write, 0)
       ELSE /\ NoWrite
            /\ UNCHANGED <<open, eof, fut, counts>>
            /\ last' = Outcome("terminate", p, "none", FALSE, 0)
    /\ UNCHANGED <<futures, uuids>>
    /\ UNCHANGED <<lines, reader, helper, staged, active, otherkeys, can, rsa,
                   calls, ready>>

Terminate(p) ==
    /\ Terminating(p)
    /\ UNCHANGED server

(* ---------------------------------------------------------------------- *)
(* Encryption handshake                                                    *)
(* ---------------------------------------------------------------------- *)

\* Connection.keys: the peer's public key and verify key, as a list.
Keys(p) == [shape |-> "list", val |-> p, idkey |-> NullId]
ListTrue == [shape |-> "list", val |-> "true", idkey |-> NullId]

\* Remote.enable_rsa up to its first suspension: False without the
\* capability or with the cipher already active; otherwise
\* request("RSA.EXCH", keys, timeout=10), whose result is unpacked.  On a
\* closed connection request() returns the failed Future and unpacking it
\* raises its ConnectionResetError; on an open one the list of keys and the
\* keyword `mid` make Request.__init__ raise ValueError, so the suspension
\* in wait_for ("waiting") and the statements after it are never reached.
EnableRsaResult(p) ==
    IF ~can[p] \/ Encrypted(p) THEN [rsa |-> "False", req |-> FALSE]
    ELSE LET r == RequestResult(p, "RSA.EXCH", Keys(p))
         IN  [rsa |-> IF r.failed THEN "ConnectionResetError"
                      ELSE IF r.raised # "none" THEN r.raised
                      ELSE "waiting",
              req |-> TRUE]

EnablingRsa(p) ==
    /\ rsa[p] = "idle"
    /\ LET e == EnableRsaResult(p)
           r == RequestResult(p, "RSA.EXCH", Keys(p))
           k == Len(fut) + 1
       IN  /\ rsa' = [rsa EXCEPT ![p] = e.rsa]
           /\ IF ~e.req
              THEN /\ UNCHANGED <<fut, futures, uuids, counts>>
                   /\ NoWrite
                   /\ last' = Outcome("enable_rsa", p, "none", FALSE, 0)
              ELSE /\ uuids' = r.uuids
                   /\ IF r.counted THEN Count(p, "request") ELSE UNCHANGED counts
                   /\ IF r.write THEN Write(p, r.text, "enable_rsa") ELSE NoWrite
                   /\ IF r.registered
                      THEN /\ fut' = Append(fut, NewFuture(p, r.id, TRUE))
                           /\ futures' = [futures EXCEPT ![p] = Register(@, r.id, k)]
                      ELSE IF r.failed
                      THEN /\ fut' = Append(fut, [NewFuture(p, NullId, FALSE) EXCEPT
                                                      !.state = "exception",
                                                      !.exc = "ConnectionResetError"])
                           /\ UNCHANGED futures
                      ELSE UNCHANGED <<fut, futures>>
                   /\ last' = Outcome("enable_rsa", p,
                                      IF e.rsa \in {"False", "waiting"} THEN "none" ELSE e.rsa,
                                      r.write, IF r.registered \/ r.failed THEN k ELSE 0)
    /\ UNCHANGED <<open, eof, lines, reader, helper, staged, active, otherkeys,
                   can,
                   calls, ready>>

EnableRsa(p) ==
    /\ Op
    /\ EnablingRsa(p)
    /\ UNCHANGED server

\* Connection.add_keys(pubkey, verkey) with the keys of the other peer:
\* with the capability the keys are stored and the box is staged.
AddKeys(p) ==
    /\ Op
    /\ staged' = [staged EXCEPT ![p] = IF can[p] THEN Box(p, Other(p)) ELSE @]
    /\ otherkeys' = [otherkeys EXCEPT ![p] = IF can[p] THEN Other(p) ELSE @]
    /\ last' = Outcome("add_keys", p, "none", FALSE, 0)
    /\ UNCHANGED <<open, futures, fut, uuids, wire, eof, lines, reader, helper, active, can,
                   rsa, sent, counts,
                   calls, ready, server, stream>>

\* Connection.begin_encryption(): self.box = self._box
BeginEncryptionCall(p) ==
    /\ Op
    /\ active' = [active EXCEPT ![p] = staged[p]]
    /\ last' = Outcome("begin_encryption", p, "none", FALSE, 0)
    /\ UNCHANGED <<open, futures, fut, uuids, wire, eof, lines, reader, helper, staged,
                   otherkeys, can, rsa, sent, counts,
                   calls, ready, server, stream>>

\* Connection.write(ptext) on an open connection: the text is encoded and
\* written.
ConnWrite(p) ==
    /\ open[p]
    /\ Op
    /\ Write(p, Line(<<WireObj("notif", "NOTE", NullId, ListX)>>), "write")
    /\ last' = [Outcome("write", p, "none", TRUE, 0) EXCEPT !.enc = active[p]]
    /\ UNCHANGED <<open, futures, fut, uuids, counts>>
    /\ UNCHANGED inbound

\* `await self.outstr.drain()` of the k-th call of write returns: the
\* call is over.  Other calls of write may have run in between.
Drain(p, k) ==
    /\ k \in 1..Len(sent[p])
    /\ ~sent[p][k].drained
    /\ sent' = [sent EXCEPT ![p][k].drained = TRUE]
    /\ UNCHANGED <<open, futures, fut, uuids, wire, eof, counts, ops, last, stream>>
    /\ UNCHANGED inbound

(* ---------------------------------------------------------------------- *)
(* Remote.loop: the reader                                                 *)
(* ---------------------------------------------------------------------- *)

\* box.decrypt succeeds on a frame encrypted under the box of the two
\* same key pairs, seen from the other side.
Opens(box, enc) == enc # NoBox /\ box.priv = enc.pub /\ box.pub = enc.priv

\* _decode that falls back to the armored text when the frame is not
\* ciphertext.
DecodeLax(p, frame) ==
    IF frame.enc = NoBox THEN [line |-> frame.line, raised |-> "none"]
    ELSE IF Encrypted(p) /\ Opens(active[p], frame.enc)
    THEN [line |-> frame.line, raised |-> "none"]
    ELSE [line |-> NotJson,
          raised |-> IF Encrypted(p) THEN "CryptoError" ELSE "UnicodeDecodeError"]

\* Connection._decode(frame): the payload, or the exception raised.  With
\* no active box the de-armored bytes are decoded as text, which fails on
\* ciphertext.
Decode(p, frame) ==
    IF Encrypted(p)
    THEN IF Opens(active[p], frame.enc)
         THEN [line |-> frame.line, raised |-> "none"]
         ELSE [line |-> NotJson, raised |-> "CryptoError"]
    ELSE IF frame.enc = NoBox
         THEN [line |-> frame.line, raised |-> "none"]
         ELSE [line |-> NotJson, raised |-> "UnicodeDecodeError"]

\* The reader leaves `async for`: close() in the finally block.
LoopEnds(p) ==
    /\ reader' = [reader EXCEPT ![p] = "ended"]
    /\ Closed(p)

\* What one iteration of the reader did with a frame: the cipher the frame
\* came under, the payload it decoded to and the exception _decode raised.
ReadOutcome(p, frame, d) ==
    [fut |-> 0, enc |-> frame.enc, line |-> d.line, raised |-> d.raised, peer |-> p,
     popped |-> {}, op |-> "read", wrote |-> FALSE, wasOpen |-> open[p], responses |-> <<>>]

\* A reader whose __anext__ does not catch CryptoError: the exception
\* ends the loop like any other.
ReadFrameStrict(p, frame) ==
    /\ reader[p] = "running"
    /\ ~eof[p]
    /\ Op
    /\ LET d == Decode(p, frame)
       IN  /\ last' = ReadOutcome(p, frame, d)
           /\ IF d.raised = "none" /\ open[p]
              THEN /\ lines' = [lines EXCEPT ![p] = Append(@, d.line)]
                   /\ UNCHANGED <<reader, open, eof, fut, counts>>
              ELSE /\ LoopEnds(p)
                   /\ counts' = [counts EXCEPT ![p].dropped =
                                     IF d.raised = "CryptoError" THEN @ + 1 ELSE @]
                   /\ UNCHANGED lines
    /\ UNCHANGED <<futures, uuids, wire, helper, staged, active, otherkeys, can, rsa, sent,
                   calls, ready, server, stream>>

\* One iteration of `async for item in self.connection`: the frame that
\* arrives on the stream is read and decoded; a line is queued, a
\* CryptoError is logged; any other exception, or a line read on a closed
\* connection, ends the loop.  counts.dropped counts the warnings
\* "Decryption ... failed".
ReadFrame(p, frame) ==
    /\ reader[p] = "running"
    /\ ~eof[p]
    /\ Op
    /\ LET d == Decode(p, frame)
       IN  /\ last' = ReadOutcome(p, frame, d)
           /\ IF d.raised = "CryptoError"
              THEN /\ counts' = [counts EXCEPT ![p].dropped = @ + 1]
                   /\ UNCHANGED <<lines, reader, open, eof, fut>>
              ELSE IF d.raised = "none" /\ open[p]
              THEN /\ lines' = [lines EXCEPT ![p] = Append(@, d.line)]
                   /\ UNCHANGED <<reader, open, eof, fut, counts>>
              ELSE /\ LoopEnds(p)
                   /\ UNCHANGED <<lines, counts>>
    /\ UNCHANGED <<futures, uuids, wire, helper, staged, active, otherkeys, can, rsa, sent,
                   calls, ready, server, stream>>

\* The frames the other end sends.  A Response with a result (["x"]) or
\* an error object, for an id drawn so far or for the id "bob":
ReadResponse(p, id, body) ==
    ReadFrame(p, Frame(NoBox, Line(<<WireObj("res", "", id, body)>>)))

\* a Request: PING, the two handshake methods, or a method without hook;
ReadRequest(p, method, params) ==
    ReadFrame(p, Frame(NoBox, Line(<<WireObj("req", method, UserId, params)>>)))

\* the TERM Notification with a reason;
ReadTerm(p) == ReadFrame(p, Frame(NoBox, Line(<<WireObj("notif", "TERM", NullId, DictA)>>)))

\* the TERM Notification with "reason": null, or without params;
ReadTermNull(p) ==
    ReadFrame(p, Frame(NoBox, Line(<<WireObj("notif", "TERM", NullId, DictNull)>>)))

ReadTermBare(p) ==
    ReadFrame(p, Frame(NoBox, Line(<<WireObj("notif", "TERM", NullId, NoParams)>>)))

\* a Notification without hook;
ReadNote(p) == ReadFrame(p, Frame(NoBox, Line(<<WireObj("notif", "NOTE", NullId, ListX)>>)))

\* a PING Request encrypted by the other end under the box of the key
\* named `key` (its own private key with the public key of `key`);
ReadCipher(p, key) ==
    ReadFrame(p, Frame(Box(Other(p), key), Line(<<WireObj("req", "PING", UserId, ListX)>>)))

\* a Request encrypted by the other end under its box for this peer;
ReadSecure(p, method, params) ==
    ReadFrame(p, Frame(Box(Other(p), p), Line(<<WireObj("req", method, UserId, params)>>)))

\* a frame that is not JSON.
ReadGarbage(p) == ReadFrame(p, Frame(NoBox, NotJson))

\* Notifications for the handlers of the application.  Each carries its
\* place in the order of sending as its params: two places per frame.
Places == <<"01", "02", "03", "04", "05", "06", "07", "08", "09", "10", "11", "12">>
Nth(k) == [shape |-> "list", val |-> Places[k], idkey |-> NullId]

ReadNotif(p, m) ==
    ReadFrame(p, Frame(NoBox, Line(<<WireObj("notif", m, NullId, Nth(2 * ops + 1))>>)))

\* Two Notifications in one batch.
ReadNotifBatch(p, m1, m2) ==
    ReadFrame(p, Frame(NoBox, Line(<<WireObj("notif", m1, NullId, Nth(2 * ops + 1)),
                                     WireObj("notif", m2, NullId, Nth(2 * ops + 2))>>)))

\* Two Requests in one batch.
ReadRequests(p, m1, m2) ==
    ReadFrame(p, Frame(NoBox, Line(<<WireObj("req", m1, UserId, ListX),
                                     WireObj("req", m2, UserId, ListX)>>)))

\* An object with any set of keys and either version, sent once the
\* object before it was taken from the queue.  Its method is PING, its id
\* "bob", its params or result ["x"], its error an error object.
ReadObject(p, ver, keys) ==
    /\ lines[p] = <<>>
    /\ ReadFrame(p, Frame(NoBox, Line(<<Obj(ver, keys, "PING", UserId, ListX,
                                            ErrorObj("-32601"))>>)))

\* readuntil() finds that the other end closed the stream:
\* IncompleteReadError ends the loop.
ReadEof(p) ==
    /\ reader[p] = "running"
    /\ Op
    /\ reader' = [reader EXCEPT ![p] = "ended"]
    /\ open' = [open EXCEPT ![p] = FALSE]
    /\ eof' = [q \in Peers |-> TRUE]
    /\ fut' = CloseFutures(p, fut)
    /\ last' = Outcome("eof", p, "IncompleteReadError", FALSE, 0)
    /\ UNCHANGED <<futures, uuids, wire, lines, helper, staged, active, otherkeys, can,
                   rsa, sent, counts,
                   calls, ready, server, stream>>

\* A loop() that returns and leaves its helpers running.
CancelNone(p) ==
    /\ reader[p] = "ended"
    /\ reader' = [reader EXCEPT ![p] = "done"]
    /\ UNCHANGED <<open, futures, fut, uuids, wire, eof, lines, helper, staged, active,
                   otherkeys, can, rsa, sent, counts, ops, last, calls, ready, server,
                   stream>>

\* `helper_runner.cancel(); await helper_runner` after the loop: every
\* helper task is cancelled.
CancelHelpers(p) ==
    /\ reader[p] = "ended"
    /\ reader' = [reader EXCEPT ![p] = "done"]
    /\ helper' = [helper EXCEPT ![p] = [h \in DOMAIN @ |-> [data |-> <<>>, responses |-> <<>>,
                                                            pc |-> "cancelled"]]]
    /\ ready' = [ready EXCEPT ![p] = <<>>]
    /\ UNCHANGED calls
    /\ UNCHANGED <<open, futures, fut, uuids, wire, eof, lines, staged, active, otherkeys,
                   can, rsa, sent, counts, ops, last,
                   server, stream>>

(* ---------------------------------------------------------------------- *)
(* Remote.run_helpers._helper: the workers                                 *)
(* ---------------------------------------------------------------------- *)
NumHelpers == 2
Helpers == 1..NumHelpers

Idle == [data |-> <<>>, responses |-> <<>>, pc |-> "idle"]
Dead == [data |-> <<>>, responses |-> <<>>, pc |-> "dead"]

\* A Response object of the outbound batch: recv.response(...).  wireid,
\* method and asked are the wire id, method and params of the Request it
\* answers (history only).
Resp(recv, error, result) ==
    LET r == ResponseInit(recv.id, error, result)
    IN  [method |-> recv.method, id |-> r.id, wireid |-> recv.wireid, error |-> r.error,
         result |-> r.result, asked |-> recv.params]

\* [ret] for an Error object, which is no dict, list, tuple, Response or
\* Exception: a list holding the object.
Wrapped(code) == [shape |-> "list", val |-> "Error " \o code, idkey |-> NullId]

\* The Responses one processed Message adds to the batch, by the type of
\* the value its processor returned (both loops of _helper use the same
\* rules): a Response is added as it is; a dict or list answers a Request
\* as its result; None answers a Request with []; anything else is wrapped
\* in a list.
Answers(recv, tsk) ==
    IF tsk.t = "Response"
    THEN <<[method |-> recv.method, id |-> tsk.id, wireid |-> recv.wireid,
            error |-> tsk.error, result |-> tsk.result, asked |-> recv.params]>>
    ELSE IF recv.kind # "req" THEN <<>>
    ELSE IF tsk.t = "value" THEN <<Resp(recv, PyNone, tsk.result)>>
    ELSE IF tsk.t = "None" THEN <<Resp(recv, PyNone, EmptyList)>>
    ELSE IF tsk.t = "Error" THEN <<Resp(recv, PyNone, Wrapped(tsk.error.val))>>
    ELSE <<>>

IsTask(tsk) == tsk.t \in {"coro", "gen"}

\* The first loop of _helper raises when it reaches an Exception returned
\* for a Request: Error.from_exception is not defined (AttributeError).
SyncRaised(data) ==
    IF \E i \in 1..Len(data) : data[i].tsk.t = "Exception" /\ data[i].recv.kind = "req"
    THEN "AttributeError" ELSE "none"

RECURSIVE SyncAnswers(_)
SyncAnswers(data) ==
    IF data = <<>> THEN <<>>
    ELSE (IF IsTask(Head(data).tsk) THEN <<>> ELSE Answers(Head(data).recv, Head(data).tsk))
         \o SyncAnswers(Tail(data))

\* The awaitables of a batch, in order.  `last` tells whether the item is
\* the last one of `data`, and `late` is that last item: the loop variable
\* `tsk`, which the coroutine _n reads when it runs, is bound to the value
\* of the last item by then.
RECURSIVE TasksFrom(_, _)
TasksFrom(data, i) ==
    IF i > Len(data) THEN <<>>
    ELSE (IF IsTask(data[i].tsk)
          THEN <<[last |-> i = Len(data), recv |-> data[i].recv, tsk |-> data[i].tsk,
                  late |-> data[Len(data)]]>>
          ELSE <<>>) \o TasksFrom(data, i + 1)

Tasks(data) == TasksFrom(data, 1)

\* cb_rsa_exchange(data), run when the gathered task is stepped: with the
\* capability the two keys are stored, the box is staged and the own keys
\* are returned; without it Error(92) is returned.  cs is the peer's
\* [staged, otherkeys, active].  Params that are not two keys make
\* add_keys raise.
RsaExchange(p, cs, data) ==
    IF ~can[p] THEN [cs |-> cs, ret |-> Tsk("Error", NullId, ErrorObj("92"), PyNone)]
    ELSE IF data.shape = "list" /\ data.val \in Peers
    THEN [cs |-> [cs EXCEPT !.staged = Box(p, data.val), !.otherkeys = data.val],
          ret |-> Tsk("value", NullId, PyNone, Keys(p))]
    ELSE [cs |-> cs, ret |-> Tsk("Exception", NullId, PyNone, PyNone)]

\* cb_rsa_confirm(_data) up to its first yield: [True] when the staged
\* box is ready, Error(1) otherwise.
RsaConfirm(p, cs) ==
    IF cs.staged # NoBox /\ cs.staged # cs.active
    THEN Tsk("value", NullId, PyNone, ListTrue)
    ELSE Tsk("Error", NullId, ErrorObj("1"), PyNone)

\* A cleanup that clears the box when the confirmation failed.
BeginEncryptionReset(act, st, confirmed) == IF confirmed THEN st ELSE NoBox

\* The rest of cb_rsa_confirm after its yield: begin_encryption() makes
\* the staged box the active one.  `confirmed` tells whether the generator
\* yielded [True]; otherwise it has nothing left to run.
BeginEncryption(act, st, confirmed) == IF confirmed THEN st ELSE act

\* The list a handler of the application produces: its k-th value.
Produced(m, k) ==
    [shape |-> "list", val |-> IF k = 1 THEN m ELSE m \o " again", idkey |-> NullId]

Exception == Tsk("Exception", NullId, PyNone, PyNone)

\* `next(tsk)` in _n, for the (acc.nexts + 1)-th time on the object `tsk`
\* is bound to.  An object that is no generator gives TypeError; a
\* generator that has ended gives StopIteration, which leaves _n as a
\* RuntimeError.  The second next() on cb_rsa_confirm runs its rest.
GenNext(p, acc, late) ==
    LET k == acc.nexts + 1
        m == late.recv.method
        conf == RsaConfirm(p, acc.cs)
    IN  IF late.tsk.t # "gen" THEN [acc EXCEPT !.ret = Exception]
        ELSE IF m = "RSA.CONF"
        THEN IF k = 1
             THEN [acc EXCEPT !.nexts = k, !.took = conf.t = "value", !.ret = conf]
             ELSE [acc EXCEPT !.nexts = k, !.ret = Exception,
                              !.cs.active = BeginEncryption(@, acc.cs.staged,
                                                            k = 2 /\ acc.took)]
        ELSE IF m = "BOOM.GEN"
        THEN [acc EXCEPT !.nexts = k, !.ret = Exception,
                         !.calls = IF k = 1 THEN Called(@, late.recv) ELSE @]
        ELSE IF m = "ERR.GEN"
        THEN [acc EXCEPT !.nexts = k,
                         !.ret = IF k = 1 THEN Tsk("Error", NullId, ErrorObj("7"), PyNone)
                                 ELSE Exception,
                         !.calls = IF k = 1 THEN Called(@, late.recv) ELSE @]
        ELSE IF k = 1 \/ (k = 2 /\ m = "GEN.TWO")
        THEN [acc EXCEPT !.nexts = k, !.ret = Tsk("value", NullId, PyNone, Produced(m, k)),
                         !.calls = IF k = 1 THEN Called(@, late.recv) ELSE @]
        ELSE [acc EXCEPT !.nexts = k, !.ret = Exception]

\* A coroutine of the batch is run to its end.
CoroRun(p, acc, it) ==
    LET m == it.recv.method
    IN  IF m = "RSA.EXCH"
        THEN LET x == RsaExchange(p, acc.cs, it.tsk.result)
             IN  [acc EXCEPT !.cs = x.cs, !.ret = x.ret]
        ELSE IF m = "N.ASYNC"
        THEN [acc EXCEPT !.ret = TskNone, !.calls = Called(@, it.recv)]
        ELSE IF m = "CORO"
        THEN [acc EXCEPT !.ret = Tsk("value", NullId, PyNone, Produced(m, 1)),
                         !.calls = Called(@, it.recv)]
        ELSE IF m = "ERR.CORO"
        THEN [acc EXCEPT !.ret = Tsk("Error", NullId, ErrorObj("7"), PyNone),
                         !.calls = Called(@, it.recv)]
        ELSE [acc EXCEPT !.ret = Exception, !.calls = Called(@, it.recv)]

\* `await gather(*tasks.values(), return_exceptions=True)`: the tasks run
\* in order; acc is [cs, finals, calls, nexts, took, ret, raised].  The
\* body of a handler of the application starts here; one that raises
\* gives its exception as the result.  Every _n steps the generator of the
\* last item of the batch.
RECURSIVE Gather(_, _, _)
Gather(p, acc, tasks) ==
    IF tasks = <<>> THEN acc
    ELSE LET it == Head(tasks)
             x == IF it.tsk.t = "gen" THEN GenNext(p, acc, it.late) ELSE CoroRun(p, acc, it)
         IN  Gather(p, [x EXCEPT !.finals = Append(@, [recv |-> it.recv, tsk |-> x.ret])],
                    Tail(tasks))

\* The second loop of _helper: the Responses for the gathered results, or
\* the exception the loop raises: an Exception result goes through
\* Error.from_exception, which Error does not define (AttributeError).
RECURSIVE FinalAnswers(_)
FinalAnswers(finals) ==
    IF finals = <<>> THEN [raised |-> "none", responses |-> <<>>]
    ELSE IF Head(finals).tsk.t = "Exception" /\ Head(finals).recv.kind = "req"
    THEN [raised |-> "AttributeError", responses |-> <<>>]
    ELSE LET rest == FinalAnswers(Tail(finals))
         IN  [raised |-> rest.raised,
              responses |-> Answers(Head(finals).recv, Head(finals).tsk) \o rest.responses]

\* The cleanup loop over the generators after the batch was sent: each
\* generator is run to its end from where gather left it, which for all
\* but the one of the last item is its beginning.
RECURSIVE Cleanup(_, _, _)
Cleanup(p, acc, tasks) ==
    IF tasks = <<>> \/ acc.raised # "none" THEN acc
    ELSE LET it == Head(tasks)
             m == it.recv.method
             k == IF it.last THEN acc.nexts ELSE 0
             took == IF k = 0 THEN RsaConfirm(p, acc.cs).t = "value" ELSE acc.took
         IN  IF it.tsk.t # "gen" THEN Cleanup(p, acc, Tail(tasks))
             ELSE IF m = "RSA.CONF"
             THEN Cleanup(p, [acc EXCEPT !.cs.active =
                                             BeginEncryption(@, acc.cs.staged, k < 2 /\ took)],
                          Tail(tasks))
             ELSE IF k = 0
             THEN Cleanup(p, [acc EXCEPT !.calls = Called(@, it.recv),
                                         !.raised = IF m = "BOOM.GEN" THEN "RuntimeError"
                                                    ELSE "none"],
                          Tail(tasks))
             ELSE Cleanup(p, acc, Tail(tasks))

\* The batch is sent when it is not empty: [raised, write, text].
SendResponses(p, responses) ==
    IF responses # <<>> THEN SendBatch(p, responses)
    ELSE [raised |-> "none", text |-> NotJson, write |-> FALSE]

\* The outcome of one step of a helper: the line it took, the ids whose
\* entries it popped from the table, the batch of Responses it built.
HelperOutcome(p, line, popped, raised, wrote, responses) ==
    [fut |-> 0, enc |-> NoBox, line |-> line, raised |-> raised, peer |-> p,
     popped |-> popped, op |-> "helper", wrote |-> wrote, wasOpen |-> open[p],
     responses |-> responses]

\* A helper takes a line from the queue, decodes it and processes its
\* Messages.  Invalid JSON is answered through respond(None, parse_error);
\* a ConnectionError (TERM) closes the Remote; any other exception is
\* raised again and ends the helper task.  Without an exception the
\* Responses of the synchronous results are collected; when there is
\* nothing to gather the batch is sent in the same step, otherwise the
\* helper is suspended in gather().
HelperTake(p, h) ==
    /\ helper[p][h].pc = "idle"
    /\ lines[p] # <<>>
    /\ lines' = [lines EXCEPT ![p] = Tail(@)]
    /\ LET line == Head(lines[p])
           st0 == [fut |-> fut, uuids |-> uuids, calls |-> calls[p], raised |-> "none",
                   futs |-> futures[p], popped |-> {}, data |-> <<>>]
       IN  \E st \in {IF line.json THEN ProcessAll(st0, line.msgs) ELSE st0} :
           LET sync == SyncAnswers(st.data)
               tasks == Tasks(st.data)
               s == SendResponses(p, sync)
           IN
           /\ uuids' = st.uuids
           /\ futures' = [futures EXCEPT ![p] = st.futs]
           /\ calls' = [calls EXCEPT ![p] = st.calls]
           /\ ready' = [ready EXCEPT ![p] =
                            IF st.raised = "none" /\ SyncRaised(st.data) = "none"
                               /\ line.json /\ tasks # <<>>
                            THEN Append(@, h) ELSE @]
           /\ IF ~line.json
              THEN LET r == RespondResult(p, Msg("res", "", NullId, ErrorObj("-32700"),
                                                 NullId), FALSE)
                   IN  /\ IF r.counted THEN Count(p, "response") ELSE UNCHANGED counts
                       /\ IF r.write THEN Write(p, r.text, "respond") ELSE NoWrite
                       /\ last' = HelperOutcome(p, line, {}, "JSONDecodeError", r.write, <<>>)
                       /\ UNCHANGED <<helper, open, eof, fut>>
              ELSE IF st.raised = "ConnectionResetError"
              THEN /\ IF open[p]
                      THEN /\ open' = [open EXCEPT ![p] = FALSE]
                           /\ eof' = [eof EXCEPT ![Other(p)] = TRUE]
                           /\ fut' = CloseFutures(p, st.fut)
                      ELSE /\ fut' = st.fut
                           /\ UNCHANGED <<open, eof>>
                   /\ last' = HelperOutcome(p, line, st.popped, st.raised, FALSE, <<>>)
                   /\ NoWrite
                   /\ UNCHANGED <<helper, counts>>
              ELSE IF st.raised # "none"
              THEN /\ helper' = [helper EXCEPT ![p][h] = Dead]
                   /\ fut' = st.fut
                   /\ last' = HelperOutcome(p, line, st.popped, st.raised, FALSE, <<>>)
                   /\ NoWrite
                   /\ UNCHANGED <<open, eof, counts>>
              ELSE IF SyncRaised(st.data) # "none"
              THEN /\ helper' = [helper EXCEPT ![p][h] = Dead]
                   /\ fut' = st.fut
                   /\ last' = HelperOutcome(p, line, st.popped, SyncRaised(st.data), FALSE,
                                            <<>>)
                   /\ NoWrite
                   /\ UNCHANGED <<open, eof, counts>>
              ELSE IF tasks # <<>>
              THEN /\ helper' = [helper EXCEPT ![p][h] =
                                     [data |-> tasks, responses |-> sync, pc |-> "gather"]]
                   /\ fut' = st.fut
                   /\ last' = HelperOutcome(p, line, st.popped, "none", FALSE, <<>>)
                   /\ NoWrite
                   /\ UNCHANGED <<open, eof, counts>>
              ELSE /\ helper' = [helper EXCEPT ![p][h] =
                                     IF s.raised # "none" THEN Dead ELSE Idle]
                   /\ fut' = st.fut
                   /\ IF s.write THEN Write(p, s.text, "send_batch") ELSE NoWrite
                   /\ last' = HelperOutcome(p, line, st.popped, s.raised, s.write, sync)
                   /\ UNCHANGED <<open, eof, counts>>
    /\ UNCHANGED <<reader, staged, active, otherkeys, can, rsa, ops,
                   server>>

\* The gathered tasks have run: their Responses join the batch, the batch
\* is sent, and the generators are cleaned up.  The event loop runs the
\* tasks in the order in which the helpers scheduled them.  An exception on the way
\* (Error.from_exception, Batch.json) ends the helper task before the
\* cleanup; what the tasks did while they were gathered stays done.
HelperGather(p, h) ==
    /\ helper[p][h].pc = "gather"
    /\ ready[p] # <<>> /\ Head(ready[p]) = h
    /\ ready' = [ready EXCEPT ![p] = Tail(@)]
    /\ \E g \in {Gather(p, [calls |-> calls[p],
                             raised |-> "none", cs |-> [staged |-> staged[p], active |-> active[p],
                                     otherkeys |-> otherkeys[p]], ret |-> TskNone,
                             nexts |-> 0, took |-> FALSE, finals |-> <<>>],
                         helper[p][h].data)} :
       LET f == FinalAnswers(g.finals)
           batch == helper[p][h].responses \o f.responses
           s == IF f.raised # "none"
                THEN [raised |-> f.raised, text |-> NotJson, write |-> FALSE]
                ELSE SendResponses(p, batch)
           c == IF s.raised # "none" THEN [g EXCEPT !.raised = s.raised]
                ELSE Cleanup(p, g, helper[p][h].data)
       IN  /\ staged' = [staged EXCEPT ![p] = c.cs.staged]
           /\ otherkeys' = [otherkeys EXCEPT ![p] = c.cs.otherkeys]
           /\ active' = [active EXCEPT ![p] = c.cs.active]
           /\ calls' = [calls EXCEPT ![p] = c.calls]
           /\ IF s.write THEN Write(p, s.text, "send_batch") ELSE NoWrite
           /\ helper' = [helper EXCEPT ![p][h] = IF c.raised # "none" THEN Dead ELSE Idle]
           /\ last' = HelperOutcome(p, NotJson, {}, c.raised, s.write,
                                    IF f.raised # "none" THEN <<>> ELSE batch)
    /\ UNCHANGED <<open, futures, fut, uuids, eof, lines, reader, can, rsa, counts, ops,
                   server>>

\* A supervisor that replaces no helper.
ReviveNone(p) ==
    /\ reader[p] = "running"
    /\ UNCHANGED vars

\* run_helpers: gather(*helpers) raised, revive() replaces every helper
\* task that has ended by a new one.
Revive(p) ==
    /\ reader[p] = "running" \/ reader[p] = "ended"
    /\ \E h \in Helpers : helper[p][h].pc = "dead"
    /\ helper' = [helper EXCEPT ![p] =
                      [h \in Helpers |-> IF @[h].pc = "dead" THEN Idle ELSE @[h]]]
    /\ UNCHANGED <<calls, ready>>
    /\ UNCHANGED <<open, futures, fut, uuids, wire, eof, lines, reader, staged, active,
                   otherkeys, can, rsa, sent, counts, ops, last,
                   server, stream>>

(* ---------------------------------------------------------------------- *)
(* Server: the acceptor                                                    *)
(* ---------------------------------------------------------------------- *)
\* The connection of peer p was accepted: its open_connection has started.
Accepted(p) == server.pc[p] # "none"

\* A drop that leaves the set as it is.
DropNothing(remotes, p) == remotes

\* Server.drop(remote): the Remote is removed if it is in the set.
Drop(remotes, p) == IF p \in remotes THEN remotes \ {p} ELSE remotes

\* Server.open_connection up to the connection hooks: a new Remote is
\* made, added to remotes, and the task of its loop() is created.
OpenConnection(p) ==
    /\ server.pc[p] = "none"
    /\ server' = [server EXCEPT !.remotes = @ \cup {p}, !.pc[p] = "hooks"]
    /\ UNCHANGED <<open, futures, fut, uuids, wire, eof, lines, reader, helper, staged,
                   active, otherkeys, can, rsa, sent, counts, ops, last, calls, ready,
                   stream>>

\* The connection hook of every Server, encrypt_remote: enable_rsa under
\* wait_for; what it returns or raises is logged, and open_connection goes
\* on to `await listening`.
EncryptRemote(p) ==
    /\ server.pc[p] = "hooks"
    /\ EnablingRsa(p)
    /\ server' = [server EXCEPT !.pc[p] = "waiting"]
    /\ UNCHANGED ops

\* `await listening` returns or raises CancelledError once loop() is
\* over; the finally block drops the Remote.
AcceptorDrop(p) ==
    /\ server.pc[p] = "waiting"
    /\ reader[p] = "done"
    /\ server' = [server EXCEPT !.remotes = Drop(@, p), !.pc[p] = "done"]
    /\ UNCHANGED <<open, futures, fut, uuids, wire, eof, lines, reader, helper, staged,
                   active, otherkeys, can, rsa, sent, counts, ops, last, calls, ready,
                   stream>>

\* Server.terminate: every Remote of the set is terminated and dropped,
\* the set is cleared, and the listeners that still run are cancelled.
ServerTerminate(p) ==
    /\ IF p \in server.remotes
       THEN Terminating(p)
       ELSE /\ Op
            /\ NoWrite
            /\ last' = Outcome("terminate", p, "none", FALSE, 0)
            /\ UNCHANGED <<open, eof, fut, counts, futures, uuids, lines, reader, helper,
                           staged, active, otherkeys, can, rsa, calls, ready>>
    /\ server' = [server EXCEPT
                      !.remotes = Drop(@, p) \ Local,
                      !.cancelled = @ \cup {q \in Local : Accepted(q) /\ reader[q] # "done"}]

\* The cancellation reaches loop() while it waits for a frame: the
\* CancelledError is caught and the finally block runs.
LoopCancelled(p) ==
    /\ p \in server.cancelled
    /\ reader[p] = "running"
    /\ LoopEnds(p)
    /\ UNCHANGED <<futures, uuids, wire, lines, helper, staged, active, otherkeys, can,
                   rsa, sent, counts, ops, last, calls, ready, server, stream>>

\* Server.hook_request(method, func) / Server.hook_notif(method, func)
\* (the same on Client): the handler is stored in the table of the owner.
HookOwner(m) ==
    /\ Op
    /\ server' = [server EXCEPT !.hooks = @ \cup {m}]
    /\ last' = Outcome("hook", "A", "none", FALSE, 0)
    /\ UNCHANGED <<open, futures, fut, uuids, wire, eof, lines, reader, helper, staged,
                   active, otherkeys, can, rsa, sent, counts, calls, ready, stream>>

(* ---------------------------------------------------------------------- *)
(* Specification                                                           *)
(* ---------------------------------------------------------------------- *)
\* A Server that has accepted no connection: remotes is empty, no
\* open_connection coroutine runs (pc), no listener was cancelled, and no
\* handler is registered in its tables (hooks).
NoServer ==
    [hooks |-> {}, pc |-> [p \in Peers |-> "none"], remotes |-> {}, cancelled |-> {}]

\* The state after Remote.__init__ and Connection.__init__; c tells which
\* peers have the capability (connection.can_encrypt).
Start(c) ==
    /\ open = [p \in Peers |-> TRUE]
    /\ futures = [p \in Peers |-> <<>>]
    /\ fut = <<>>
    /\ uuids = 0
    /\ wire = [p \in Peers |-> <<>>]
    /\ eof = [p \in Peers |-> FALSE]
    /\ lines = [p \in Peers |-> <<>>]
    /\ reader = [p \in Peers |-> "running"]
    /\ helper = [p \in Peers |-> [h \in Helpers |-> Idle]]
    /\ staged = [p \in Peers |-> NoBox]
    /\ active = [p \in Peers |-> NoBox]
    /\ otherkeys = [p \in Peers |-> ""]
    /\ can = c
    /\ rsa = [p \in Peers |-> "idle"]
    /\ sent = [p \in Peers |-> <<>>]
    /\ counts = [p \in Peers |-> [dropped |-> 0, notif |-> 0, request |-> 0,
                                   response |-> 0]]
    /\ ops = 0
    /\ stream = [p \in Peers |-> <<>>]
    /\ calls = [p \in Peers |-> <<>>]
    /\ ready = [p \in Peers |-> <<>>]
    /\ server = NoServer
    /\ last = [fut |-> 0, enc |-> NoBox, line |-> NotJson, raised |-> "none",
               peer |-> "A", popped |-> {}, op |-> "init", wrote |-> FALSE,
               wasOpen |-> TRUE, responses |-> <<>>]

\* Both peers can encrypt.
Init == Start([p \in Peers |-> TRUE])

\* The modelled peer runs without the nacl package.
InitPlain == Start([p \in Peers |-> p \notin Local])

\* Requests and the Responses that answer them.
NextRequests ==
    \/ \E p \in Local, params \in Payloads, timed \in BOOLEAN : Request(p, params, timed)
    \/ \E k \in 1..MaxOps : Timeout(k)
    \/ \E k \in 1..MaxOps : Cancel(k)
    \/ \E p \in Local, id \in 0..uuids, body \in {ListX, ErrorObj("-32601")} :
           ReadResponse(p, id, body)

\* The reader and the workers.
NextWorkers ==
    \/ \E p \in Local, h \in Helpers : HelperTake(p, h)
    \/ \E p \in Local : Revive(p)

\* The ways a peer is closed.
NextClose ==
    \/ \E p \in Local : Close(p)
    \/ \E p \in Local : Terminate(p)
    \/ \E p \in Local : ReadTerm(p)
    \/ \E p \in Local : ReadEof(p)
    \/ \E p \in Local : CancelHelpers(p)

\* Inbound Requests and the handshake.
NextServe ==
    \/ \E p \in Local : ReadRequest(p, "PING", ListX)
    \/ \E p \in Local : ReadRequest(p, "RSA.EXCH", Keys(Other(p)))
    \/ \E p \in Local : ReadRequest(p, "RSA.CONF", ListTrue)
    \/ \E p \in Local : ReadGarbage(p)
    \/ \E p \in Local, h \in Helpers : HelperGather(p, h)
    \/ \E p \in Local : EnableRsa(p)

\* The other outbound calls.
NextCalls ==
    \/ \E p \in Local, nohandle \in BOOLEAN : Notif(p, nohandle)
    \/ \E p \in Local, nohandle \in BOOLEAN : Respond(p, UserId, nohandle)
    \/ \E p \in Local : SendCall(p)
    \/ \E p \in Local, b \in {<<>>, <<ListX>>} : SendBatchCall(p, b)

\* Outstanding Requests, their Responses, and the peer's lifecycle.
Next == NextRequests \/ NextWorkers \/ NextClose

Spec == Init /\ [][Next]_vars

\* A peer that serves inbound Requests and starts the handshake.
NextServing ==
    \/ NextServe
    \/ NextWorkers
    \/ \E p \in Local : Close(p)

SpecServe == Init /\ [][NextServing]_vars

\* A peer whose application uses every outbound call, open or closed.
NextCalling ==
    \/ NextCalls
    \/ NextClose
    \/ \E p \in Local, params \in Payloads, timed \in BOOLEAN : Request(p, params, timed)
    \/ \E p \in Local, h \in Helpers : HelperTake(p, h)
    \/ \E p \in Local : ReadGarbage(p)

SpecCalls == Init /\ [][NextCalling]_vars
\* A connection whose cipher is staged and activated, and the frames that
\* cross it in both directions.
NextCipher ==
    \/ \E p \in Local : AddKeys(p)
    \/ \E p \in Local : BeginEncryptionCall(p)
    \/ \E p \in Local : ConnWrite(p)
    \/ \E p \in Local, key \in Peers : ReadCipher(p, key)
    \/ \E p \in Local : ReadRequest(p, "PING", ListX)
    \/ \E p \in Local : ReadRequest(p, "RSA.CONF", ListTrue)
    \/ \E p \in Local, h \in Helpers : HelperGather(p, h)
    \/ \E p \in Local : EnableRsa(p)
    \/ \E p \in Local : Close(p)
    \/ NextWorkers

SpecCipher == Init /\ [][NextCipher]_vars

\* A peer without the capability that serves the handshake Requests.
SpecPlain == InitPlain /\ [][NextServing]_vars

\* A peer that is told to terminate, with or without a reason.
NextTerm ==
    \/ \E p \in Local : ReadTermNull(p)
    \/ \E p \in Local : ReadTermBare(p)
    \/ \E p \in Local : ReadNote(p)
    \/ \E p \in Local, params \in {NoParams}, timed \in BOOLEAN : Request(p, params, timed)
    \/ NextClose
    \/ NextWorkers

SpecTerm == Init /\ [][NextTerm]_vars

\* A peer that is sent objects of every shape.
NextCheck ==
    \/ \E p \in Local, ver \in {"2.0", "1.0"}, keys \in SUBSET KeyNames :
           ReadObject(p, ver, keys)
    \/ NextWorkers

SpecCheck == Init /\ [][NextCheck]_vars

\* A peer that is sent Requests and Notifications with and without a
\* hook, among them Requests whose handler raises.
NextDispatch ==
    \/ \E p \in Local, m \in {"PING", "NOPE", "BOOM", "BOOM.CORO", "BOOM.GEN"} :
           ReadRequest(p, m, ListX)
    \/ \E p \in Local : ReadNote(p)
    \/ \E p \in Local, h \in Helpers : HelperGather(p, h)
    \/ NextWorkers

SpecDispatch == Init /\ [][NextDispatch]_vars

\* A peer that is sent Notifications for its handlers, one per frame or
\* two in a batch.
NextOrder ==
    \/ \E p \in Local, m \in HooksNotif : ReadNotif(p, m)
    \/ \E p \in Local, m1 \in HooksNotif, m2 \in HooksNotif : ReadNotifBatch(p, m1, m2)
    \/ \E p \in Local, h \in Helpers : HelperGather(p, h)
    \/ \E p \in Local, h \in Helpers : HelperTake(p, h)

SpecOrder == Init /\ [][NextOrder]_vars

\* A peer that is sent Requests whose handlers return a coroutine or a
\* generator, one per frame or two in a batch, while its box is staged
\* and its connection is open or closed.
Deferred == {"RSA.CONF", "GEN.ONE"}
DeferredPairs == {<<"RSA.CONF", "RSA.CONF">>, <<"RSA.CONF", "GEN.TWO">>,
                  <<"GEN.ONE", "GEN.TWO">>, <<"CORO", "GEN.ONE">>, <<"CORO", "CORO">>}

NextDefer ==
    \/ \E p \in Local : AddKeys(p)
    \/ \E p \in Local, m \in Deferred : ReadRequest(p, m, ListX)
    \/ \E p \in Local, ms \in DeferredPairs : ReadRequests(p, ms[1], ms[2])
    \/ \E p \in Local : Close(p)
    \/ \E p \in Local, h \in Helpers : HelperGather(p, h)
    \/ \E p \in Local, h \in Helpers : HelperTake(p, h)

SpecDefer == Init /\ [][NextDefer]_vars

\* A peer that is sent RSA.EXCH and RSA.CONF in any order, in plaintext
\* and under the cipher, with the keys of the other end or with other
\* keys, while the application stages and activates the box itself.
NextRekey ==
    \/ \E p \in Local : AddKeys(p)
    \/ \E p \in Local : BeginEncryptionCall(p)
    \/ \E p \in Local, k \in Peers : ReadRequest(p, "RSA.EXCH", Keys(k))
    \/ \E p \in Local, k \in Peers : ReadSecure(p, "RSA.EXCH", Keys(k))
    \/ \E p \in Local : ReadRequest(p, "RSA.CONF", ListTrue)
    \/ \E p \in Local : ReadSecure(p, "RSA.CONF", ListTrue)
    \/ \E p \in Local : Close(p)
    \/ \E p \in Local, h \in Helpers : HelperGather(p, h)
    \/ \E p \in Local, h \in Helpers : HelperTake(p, h)

SpecRekey == Init /\ [][NextRekey]_vars

\* A peer whose owner registers handlers while Requests and
\* Notifications arrive: for methods the peer has a handler for itself,
\* for methods only the owner has one for, and for a method without any.
NextInher ==
    \/ \E m \in OwnerHooks : HookOwner(m)
    \/ \E p \in Local, m \in {"PING", "SVC"} : ReadRequest(p, m, ListX)
    \/ \E p \in Local, m \in {"N.SYNC", "N.SVC"} : ReadNotif(p, m)
    \/ \E p \in Local, h \in Helpers : HelperTake(p, h)

SpecInher == Init /\ [][NextInher]_vars

\* A peer that is sent Requests whose handlers give an Error object: by
\* returning it, as the result of a coroutine, as the first value of a
\* generator.
NextErr ==
    \/ \E p \in Local, m \in {"ERR", "ERR.CORO", "ERR.GEN", "PING"} : ReadRequest(p, m, ListX)
    \/ \E p \in Local : Close(p)
    \/ \E p \in Local, h \in Helpers : HelperGather(p, h)
    \/ \E p \in Local, h \in Helpers : HelperTake(p, h)

SpecErr == Init /\ [][NextErr]_vars

\* Calls of Connection.write that overlap, under either cipher.
NextWrite ==
    \/ \E p \in Local : ConnWrite(p)
    \/ \E p \in Local, k \in 1..MaxOps : Drain(p, k)
    \/ \E p \in Local : AddKeys(p)
    \/ \E p \in Local : BeginEncryptionCall(p)
    \/ \E p \in Local : Close(p)

SpecWrite == Init /\ [][NextWrite]_vars

\* A pool whose helpers die of the Requests they are sent, until the
\* stream ends.
NextPool ==
    \/ \E p \in Local : ReadRequest(p, "PING", ListX)
    \/ \E p \in Local : ReadRequest(p, "BOOM.CORO", ListX)
    \/ \E p \in Local : ReadNote(p)
    \/ \E p \in Local : ReadEof(p)
    \/ \E p \in Local : CancelHelpers(p)
    \/ \E p \in Local, h \in Helpers : HelperGather(p, h)
    \/ NextWorkers

\* The event loop runs every task that is ready: the helpers, the
\* supervisor after gather() raised, the finally block of loop().
FairPool ==
    \A p \in Local : /\ WF_vars(\E h \in Helpers : HelperTake(p, h))
                      /\ WF_vars(\E h \in Helpers : HelperGather(p, h))
                      /\ WF_vars(Revive(p))
                      /\ WF_vars(CancelHelpers(p))

SpecPool == Init /\ [][NextPool]_vars /\ FairPool

\* A Server that accepts the connection of a peer, reads from it and may
\* be terminated.
NextServer ==
    \/ \E p \in Local : OpenConnection(p)
    \/ \E p \in Local : EncryptRemote(p)
    \/ \E p \in Local : AcceptorDrop(p)
    \/ \E p \in Local : ServerTerminate(p)
    \/ \E p \in Local : LoopCancelled(p)
    \/ \E p \in Local : CancelHelpers(p)
    \/ \E p \in Local : Accepted(p) /\ ReadRequest(p, "PING", ListX)
    \/ \E p \in Local : Accepted(p) /\ ReadTerm(p)
    \/ \E p \in Local : Accepted(p) /\ ReadGarbage(p)
    \/ \E p \in Local : Accepted(p) /\ ReadEof(p)
    \/ NextWorkers

\* The event loop runs every task that is ready: the hook, the finally
\* block of loop() and the finally block of open_connection.
FairServer ==
    \A p \in Local : /\ WF_vars(EncryptRemote(p))
                      /\ WF_vars(CancelHelpers(p))
                      /\ WF_vars(AcceptorDrop(p))

SpecServer == Init /\ [][NextServer]_vars /\ FairServer

(* ---------------------------------------------------------------------- *)
(* Properties                                                              *)
(* ---------------------------------------------------------------------- *)

\* The step in which a helper of p takes from the queue a line that holds
\* the single Response with id i.
TakesResponse(p, i) ==
    /\ lines[p] # <<>>
    /\ lines'[p] = Tail(lines[p])
    /\ Head(lines[p]).json
    /\ Len(Head(lines[p]).msgs) = 1
    /\ Head(lines[p]).msgs[1].kind = "res"
    /\ Head(lines[p]).msgs[1].id = i

\* Future k is the one registered in p's table under the id i.
Outstanding(p, i, k) == i \in DOMAIN futures[p] /\ futures[p][i] = k

\* The step dropped what it read: no Future changed, nothing was raised,
\* no Response was built and nothing was written.
Dropped ==
    /\ fut' = fut
    /\ last'.raised = "none"
    /\ last'.responses = <<>>
    /\ ~last'.wrote
    /\ sent' = sent

\* C1: an inbound Response with id i, while i is outstanding with a
\* pending completion, completes the completion registered for i and
\* changes no other completion.
C1_ResponseCompletesItsRequest ==
    [][\A p \in Local, i \in Ids, k \in 1..Len(fut) :
          (TakesResponse(p, i) /\ Outstanding(p, i, k) /\ ~Done(fut[k]))
          => /\ Done(fut'[k])
             /\ \A j \in 1..Len(fut) : j # k => fut'[j] = fut[j]]_vars

\* C2: every Response built for an inbound Request carries the id the
\* Request had on the wire, and a PING Response carries the Request's
\* params as its result.
C2_ResponseEchoesRequestId ==
    \A i \in 1..Len(last.responses) :
        /\ last.responses[i].id = last.responses[i].wireid
        /\ last.responses[i].method = "PING"
           => last.responses[i].result = last.responses[i].asked

\* C3: the table of a peer holds the id of a Request exactly while the
\* Request is pending: sent, and neither answered, cancelled nor timed out.
C3_TableHoldsExactlyThePending ==
    \A k \in 1..Len(fut) :
        fut[k].id # NullId
        => (Outstanding(fut[k].peer, fut[k].id, k) <=> ~Done(fut[k]))

\* C4: once the timeout of a Request has expired its completion has failed
\* with a timeout and its entry is out of the table, and a Response that
\* comes later for that id is dropped.
C4_TimeoutRemovesEntry ==
    [][/\ \A k \in 1..Len(fut') :
              fut'[k].exc = "TimeoutError"
              => /\ Done(fut'[k])
                 /\ ~(fut'[k].id \in DOMAIN futures'[fut'[k].peer]
                      /\ futures'[fut'[k].peer][fut'[k].id] = k)
       /\ \A p \in Local, k \in 1..Len(fut) :
              (fut[k].exc = "TimeoutError" /\ fut[k].peer = p
               /\ TakesResponse(p, fut[k].id))
              => fut' = fut]_vars

\* C5: when a peer is closed and its reader and helpers have ended, no
\* completion of its outstanding Requests is pending: each one has failed
\* with the connection-closed error.
C5_CloseFailsPending ==
    \A k \in 1..Len(fut) :
        (~open[fut[k].peer] /\ reader[fut[k].peer] = "done" /\ fut[k].id # NullId
         /\ fut[k].state \in {"pending", "exception"})
        => (fut[k].state = "exception" /\ fut[k].exc = "ConnectionResetError")

C7_UnknownResponseDropped ==
    [][\A p \in Local, i \in Ids :
          (TakesResponse(p, i) /\ i \notin DOMAIN futures[p])
          => /\ Dropped
             /\ futures' = futures
             /\ helper' = helper]_vars

\* A second Response came for an id that a first one had answered.
C7_Witness ==
    /\ last.op = "helper"
    /\ last.popped = {}
    /\ last.line.json
    /\ Len(last.line.msgs) = 1
    /\ last.line.msgs[1].kind = "res"
    /\ \E k \in 1..Len(fut) :
           /\ fut[k].id = last.line.msgs[1].id
           /\ fut[k].peer = last.peer
           /\ fut[k].state = "result"

\* C8: the ids under which one peer registers its Requests are pairwise
\* distinct over the whole run, so that no registration overwrites an
\* entry or takes the id of an earlier Request.
C8_IdsAreDistinct ==
    \A j, k \in 1..Len(fut) :
        (j # k /\ fut[j].peer = fut[k].peer /\ fut[j].id # NullId /\ fut[k].id # NullId)
        => fut[j].id # fut[k].id

\* The calls of the public interface that send.
OutboundOps == {"notif", "request", "respond", "send", "send_batch", "terminate"}

\* C9: on a connection whose open flag is false, notif, request, respond,
\* send, send_batch and terminate write nothing and return without
\* raising, and no frame is ever written by a closed peer.
C9_ClosedPeerIsSilent ==
    /\ ~last.wasOpen => ~last.wrote
    /\ (last.op \in OutboundOps /\ ~last.wasOpen) => last.raised = "none"
    /\ \A p \in Peers : \A i \in 1..Len(sent[p]) : sent[p][i].open

\* send() was called on a closed peer.
C9_Witness == last.op = "send" /\ ~last.wasOpen /\ ~open[last.peer]

\* C10: when enable_rsa(), started on an open connection whose two peers
\* have the capability, has ended, the cipher of the peer is active with
\* its own private key and the other peer's public key.
C10_HandshakeActivatesCipher ==
    \A p \in Local :
        (rsa[p] \notin {"idle", "waiting", "ConnectionResetError"}
         /\ can[p] /\ can[Other(p)])
        => active[p] = Box(p, Other(p))

\* C11: once the active cipher of a connection is set it is never cleared,
\* whatever handshake Requests, enable_rsa and close calls follow.
C11_ActivationIsMonotonic ==
    [][\A p \in Peers : Encrypted(p) => Encrypted(p)']_vars

\* An RSA.CONF Request was refused on a closed peer whose cipher is active.
C11_Witness ==
    \E p \in Local :
        /\ Encrypted(p) /\ ~open[p]
        /\ last.op = "helper" /\ last.peer = p
        /\ last.responses # <<>>
        /\ last.responses[1].method = "RSA.CONF"
        /\ last.responses[1].result = Wrapped("1")

\* C12: every frame a peer writes while its cipher is active is encrypted
\* under that cipher.
C12_WritesAfterActivationAreEncrypted ==
    [][\A p \in Local :
          (Encrypted(p) /\ Len(sent'[p]) > Len(sent[p]))
          => /\ sent'[p][Len(sent'[p])].frame.enc = active[p]
             /\ sent'[p][Len(sent'[p])].frame.enc # NoBox]_vars

\* A frame was written by a peer whose cipher is active.
C12_Witness ==
    \E p \in Local :
        /\ last.op = "write" /\ last.peer = p
        /\ Encrypted(p) /\ last.enc # NoBox
        /\ sent[p] # <<>>

\* The step in which the reader of p reads one frame.
ReadStep(p) == ops' = ops + 1 /\ last'.op = "read" /\ last'.peer = p

\* C13: while the cipher of a peer is active, a frame that was not
\* encrypted under it is yielded as a crypto error and dropped: it is not
\* queued and nothing is dispatched.
C13_PlaintextRejectedAfterActivation ==
    [][\A p \in Local :
          (ReadStep(p) /\ Encrypted(p) /\ ~Opens(active[p], last'.enc))
          => /\ last'.raised = "CryptoError"
             /\ lines' = lines
             /\ reader' = reader
             /\ UNCHANGED <<fut, futures, helper, sent,
                   stream>>]_vars

\* A plaintext frame reached a peer whose cipher is active.
C13_Witness ==
    \E p \in Local :
        /\ last.op = "read" /\ last.peer = p
        /\ last.enc = NoBox
        /\ last.raised = "CryptoError"
        /\ Encrypted(p)

\* C14: a frame that fails decryption is dropped: no Response is sent, the
\* connection is not closed and the reader keeps running, so that a valid
\* frame read later on the open connection is queued for dispatch.
C14_CryptoErrorKeepsConnection ==
    [][\A p \in Local :
          /\ (ReadStep(p) /\ last'.raised = "CryptoError")
             => /\ UNCHANGED <<open, reader, eof, sent, lines, helper, fut, futures,
                   stream>>
                /\ counts'[p].response = counts[p].response
          /\ (ReadStep(p) /\ counts[p].dropped > 0 /\ open[p] /\ last'.raised = "none")
             => lines'[p] = Append(lines[p], last'.line)]_vars

\* A valid frame was read and queued after another one had failed
\* decryption.
C14_Witness ==
    \E p \in Local :
        /\ counts[p].dropped > 0
        /\ last.op = "read" /\ last.peer = p /\ last.raised = "none"
        /\ open[p] /\ reader[p] = "running"
        /\ lines[p] # <<>>
        /\ lines[p][Len(lines[p])] = last.line

\* The Responses of the batch the last helper step built for Requests of
\* the method m.
BuiltFor(m) ==
    {i \in 1..Len(last.responses) : last.op = "helper" /\ last.responses[i].method = m}

\* C16: an RSA.CONF Request that reaches a peer without a staged cipher is
\* answered with an Error Response of code 1, and the cipher of the peer
\* stays inactive.
C16_ConfirmWithoutStagedIsRefused ==
    \A i \in BuiltFor("RSA.CONF") :
        staged[last.peer] = NoBox
        => /\ last.responses[i].error = ErrorObj("1")
           /\ last.responses[i].result = PyNone
           /\ active[last.peer] = NoBox

\* C17: a peer without the capability answers RSA.EXCH with an Error
\* Response of code 92, stages and activates nothing, and stays open.
C17_ExchangeWithoutCapabilityIsRefused ==
    \A i \in BuiltFor("RSA.EXCH") :
        ~can[last.peer]
        => /\ last.responses[i].error = ErrorObj("92")
           /\ last.responses[i].result = PyNone
           /\ staged[last.peer] = NoBox
           /\ active[last.peer] = NoBox
           /\ open[last.peer] = last.wasOpen

\* The line holds the single Notification TERM.
IsTerm(line) ==
    /\ line.json
    /\ Len(line.msgs) = 1
    /\ line.msgs[1].kind = "notif"
    /\ line.msgs[1].method = "TERM"

\* C18: when a helper has processed a TERM Notification, with a reason,
\* with a null reason or without params, the connection of the peer is
\* closed, through the connection-reset error that ends the reader.
C18_TermClosesPeer ==
    (last.op = "helper" /\ IsTerm(last.line))
    => /\ ~open[last.peer]
       /\ last.raised = "ConnectionResetError"

\* C19: terminate() on an open peer writes the TERM frame and leaves the
\* peer closed; on a closed peer it writes nothing.
C19_TerminateWritesTermThenCloses ==
    last.op = "terminate"
    => /\ ~open[last.peer]
       /\ last.wrote = last.wasOpen

\* C20: for a frame that is not valid JSON, read on an open connection,
\* one Response with parse_error is written, and the connection stays
\* open.
C20_ParseErrorIsAnswered ==
    (last.op = "helper" /\ last.raised = "JSONDecodeError" /\ last.wasOpen)
    => /\ last.wrote
       /\ open[last.peer]

\* The line holds one object.
Single(line) == line.json /\ Len(line.msgs) = 1

\* C21: an object of no kind that carries an id is answered with one
\* Error Response invalid_request for that id, one without an id is
\* dropped without a Response; the connection stays open in both cases.
C21_InvalidObjectIsRejected ==
    (last.op = "helper" /\ last.wasOpen /\ Single(last.line)
     /\ last.line.msgs[1].kind = "none")
    => /\ open[last.peer]
       /\ IF "id" \in last.line.msgs[1].keys
          THEN /\ Len(last.responses) = 1
               /\ last.responses[1].error = ErrorObj("-32600")
               /\ last.responses[1].id = last.line.msgs[1].id
          ELSE last.responses = <<>> /\ ~last.wrote

\* The kind the rule table gives to an object of version 2.0 with these
\* keys.
RuleTable(keys) ==
    IF "method" \in keys /\ keys \subseteq {"method", "params"} THEN "notif"
    ELSE IF {"method", "id"} \subseteq keys /\ keys \subseteq {"method", "params", "id"}
    THEN "req"
    ELSE IF "id" \in keys /\ keys \subseteq {"result", "error", "id"}
            /\ (("result" \in keys) # ("error" \in keys))
    THEN "res"
    ELSE "none"

\* C22: every object of version 2.0 is classified as the rule table says:
\* Notification, Request, Response with exactly one of result and error,
\* or invalid.
C22_ClassificationFollowsRuleTable ==
    (Single(last.line) /\ last.line.msgs[1].ver = "2.0")
    => last.line.msgs[1].kind = RuleTable(last.line.msgs[1].keys)

\* C23: a Request whose method has no handler is answered with one Error
\* Response method_not_found that carries the id of the Request and is
\* written to the stream.
C23_UnknownMethodIsAnswered ==
    (last.op = "helper" /\ last.wasOpen /\ Single(last.line)
     /\ last.line.msgs[1].kind = "req"
     /\ last.line.msgs[1].method \notin HooksRequest)
    => /\ Len(last.responses) = 1
       /\ last.responses[1].error = ErrorObj("-32601")
       /\ last.responses[1].id = last.line.msgs[1].id
       /\ last.wrote

Raising == {"BOOM", "BOOM.CORO", "BOOM.GEN"}

\* C25: when the handler of a Request raises, in its call, in its awaited
\* body or in its deferred sequence, the helper that ran it goes on without
\* an exception, an Error Response is built for the Request, and the
\* connection stays open.
C25_HandlerExceptionIsAnswered ==
    [][\A p \in Local :
          (calls'[p] # calls[p] /\ calls'[p][Len(calls'[p])].method \in Raising)
          => /\ last'.raised = "none"
             /\ \E i \in 1..Len(last'.responses) :
                    /\ last'.responses[i].method \in Raising
                    /\ last'.responses[i].error # PyNone
             /\ \A h \in Helpers : helper'[p][h].pc = "dead" => helper[p][h].pc = "dead"
             /\ open'[p] = open[p]]_vars

\* The place in the order of sending that a call of a handler belongs to.
Rank(call) == CHOOSE k \in 1..Len(Places) : Places[k] = call.tag

\* C26: the handlers of the Notifications one peer sent are started in
\* the order in which the Notifications were sent.
C26_NotificationsHandledInOrder ==
    \A p \in Local : \A i, j \in 1..Len(calls[p]) :
        i < j => Rank(calls[p][i]) < Rank(calls[p][j])

\* C27: once the reader loop of an accepted peer has ended, the peer is
\* eventually out of the Server's set, and a peer that was removed from the
\* set is never in it again.
C27_EndedPeerIsRemoved ==
    /\ \A p \in Local : (Accepted(p) /\ reader[p] \in {"ended", "done"}) ~> (p \notin server.remotes)
    /\ [][\A p \in Local : (Accepted(p) /\ p \notin server.remotes) => p \notin server.remotes']_vars

\* The loop ended at the end of the stream and open_connection has
\* dropped the peer.
C27_Witness ==
    \E p \in Local : /\ server.pc[p] = "done"
                      /\ reader[p] = "done"
                      /\ last.op = "eof"
                      /\ p \notin server.remotes

\* C28: the chunks handed to the stream are, frame after frame, the
\* payload of the frame and then the terminator of the same frame; no
\* chunk of another frame comes between them.
C28_FramesDoNotInterleave ==
    \A p \in Local :
        /\ Len(stream[p]) = 2 * Len(sent[p])
        /\ \A k \in 1..Len(sent[p]) :
               /\ stream[p][2 * k - 1] = [part |-> "payload", frame |-> k]
               /\ stream[p][2 * k] = [part |-> "sep", frame |-> k]

\* A second frame was written while the first call of write still waits
\* in drain().
C28_Witness ==
    \E p \in Local : /\ Len(sent[p]) >= 2
                      /\ ~sent[p][1].drained
                      /\ sent[p][2].drained

\* C29: a pool with a helper that died of an exception is brought back to
\* helpers that all live, and the lines in the queue are taken, unless the
\* supervisor is cancelled first; once the supervisor was cancelled every
\* helper is cancelled.
C29_DeadHelperIsReplaced ==
    \A p \in Local :
        /\ (\E h \in Helpers : helper[p][h].pc = "dead")
               ~> (reader[p] = "done" \/ \A h \in Helpers : helper[p][h].pc \in {"idle", "gather"})
        /\ (lines[p] # <<>>) ~> (reader[p] = "done" \/ lines[p] = <<>>)
        /\ [](reader[p] = "done" => \A h \in Helpers : helper[p][h].pc = "cancelled")

\* A helper died of an AttributeError, and the pool is whole again while
\* the reader still runs.
C29_Witness ==
    \E p \in Local : /\ last.op = "helper"
                      /\ last.raised = "AttributeError"
                      /\ reader[p] = "running"
                      /\ \A h \in Helpers : helper[p][h].pc = "idle"

\* C30: a reader loop that has left `async for` has closed the connection;
\* once loop() has returned every helper is cancelled, and no step takes a
\* line, starts a handler or writes a frame for that peer.
C30_NoWorkAfterLoopReturned ==
    /\ [](\A p \in Local :
            /\ reader[p] \in {"ended", "done"} => ~open[p]
            /\ reader[p] = "done" => \A h \in Helpers : helper[p][h].pc = "cancelled")
    /\ [][\A p \in Local : reader[p] = "done" =>
              /\ lines'[p] = lines[p]
              /\ helper'[p] = helper[p]
              /\ calls'[p] = calls[p]
              /\ futures'[p] = futures[p]
              /\ sent'[p] = sent[p]
              /\ stream'[p] = stream[p]]_vars

\* loop() has returned while lines were still waiting in the queue.
C30_Witness ==
    \E p \in Local : /\ reader[p] = "done"
                      /\ lines[p] # <<>>
                      /\ Accepted(p)
\* C31: what a generator handler does after its first yield happens only
\* after the batch with its Response was written.  For RSA.CONF: a helper
\* step that activates the box has written, under the box that was active
\* before, a batch in which the Response to RSA.CONF is [true].
C31_CleanupAfterBatchWritten ==
    [][\A p \in Local :
         (last'.op = "helper" /\ last'.peer = p /\ active'[p] # active[p])
             => /\ last'.wrote
                /\ Len(sent'[p]) = Len(sent[p]) + 1
                /\ sent'[p][Len(sent'[p])].frame.enc = active[p]
                /\ \E i \in 1..Len(last'.responses) :
                       /\ last'.responses[i].method = "RSA.CONF"
                       /\ last'.responses[i].result = ListTrue]_vars

\* C32: whenever the active box of a connection is set, it is the staged
\* box, whatever RSA.EXCH and RSA.CONF Requests were served, an RSA.EXCH
\* after the activation included.
C32_ActiveIsStaged ==
    \A p \in Local : Encrypted(p) => active[p] = staged[p]

\* The step in which a helper of p takes a line and processes its
\* Messages.
TakeStep(p) == last'.op = "helper" /\ last'.peer = p /\ lines'[p] # lines[p]

\* The Responses built in the step for Requests of the method m, and the
\* handler calls the step added for the method m.
NewResponses(m) ==
    {i \in 1..Len(last'.responses) : last'.responses[i].method = m}
NewCalls(p, m) ==
    {i \in (Len(calls[p]) + 1)..Len(calls'[p]) : calls'[p][i].method = m}

C35_ErrorObjectIsErrorResponse ==
    [][\A i \in 1..Len(last'.responses) :
         (last'.op = "helper" /\ last'.responses[i].method \in {"ERR", "ERR.CORO", "ERR.GEN"})
            => /\ last'.responses[i].error = ErrorObj("7")
               /\ last'.responses[i].result = PyNone]_vars

\* C36: a frame whose payload fails Unicode decoding is dropped: no
\* Response is written for it, the connection stays open and the reader
\* keeps running, so that the frames that follow are still read.
C36_UndecodableFrameIsDropped ==
    [][\A p \in Local :
         (ReadStep(p) /\ last'.raised = "UnicodeDecodeError")
            => /\ open'[p] = open[p]
               /\ reader'[p] = reader[p]
               /\ UNCHANGED <<sent, lines, eof>>]_vars

\* C38: a helper step that serves RSA.CONF makes the staged box the active
\* one only if the Response it built for RSA.CONF is the result [true];
\* also when RSA.CONF came in a batch with other Requests.
C38_ActivationOnlyWithTrue ==
    [][\A p \in Local :
         (last'.op = "helper" /\ last'.peer = p /\ active'[p] # active[p])
            => /\ NewResponses("RSA.CONF") # {}
               /\ \A i \in NewResponses("RSA.CONF") :
                      /\ last'.responses[i].result = ListTrue
                      /\ last'.responses[i].error = PyNone]_vars

\* C39: in a batch of Requests whose handlers return a coroutine or a
\* generator, each Response carries the value the handler of its own
\* Request produces: the first value of CORO, GEN.ONE or GEN.TWO.
C39_ResultsAreNotCrossed ==
    [][\A m \in {"CORO", "GEN.ONE", "GEN.TWO"} :
         last'.op = "helper" =>
            \A i \in NewResponses(m) : last'.responses[i].result = Produced(m, 1)]_vars

\* C40: request() on a peer whose connection is closed returns a Future
\* that has already failed with ConnectionResetError, writes nothing and
\* changes neither the table of outstanding Requests nor the counters.
C40_RequestOnClosedPeer ==
    [][\A p \in Local :
         (ops' = ops + 1 /\ last'.op = "request" /\ last'.peer = p /\ ~open[p])
            => /\ last'.raised = "none"
               /\ Len(fut') = Len(fut) + 1
               /\ last'.fut = Len(fut')
               /\ fut'[Len(fut')].state = "exception"
               /\ fut'[Len(fut')].exc = "ConnectionResetError"
               /\ UNCHANGED <<futures, counts, uuids, sent, wire, stream>>]_vars

\* request() was called on a closed peer while an earlier Request of the
\* peer was still in its table.
C40_Witness ==
    \E p \in Local :
        /\ last.op = "request" /\ last.peer = p /\ ~last.wasOpen
        /\ last.fut = Len(fut)
        /\ fut[last.fut].state = "exception"
        /\ futures[p] # <<>>
        /\ counts[p].request > 0

====
